---- MODULE Spec2Model ----
(***************************************************************************)
(* Model of the mapzebrain viewer's cross-view synchronisation.            *)
(*                                                                         *)
(* The program is a single-threaded Qt application.  Every signal is       *)
(* connected directly, so `emit` calls the connected slots one after the   *)
(* other, in the order in which they were connected, and returns when the  *)
(* last one has returned.  The model keeps that call structure as a stack  *)
(* of frames: a frame is the sequence of calls still to be made for one    *)
(* emission, and a slot that emits pushes a new frame on top.              *)
(*                                                                         *)
(* Positions of lines are kept in half units (2 = one pixel), so that a    *)
(* line can stand between two integer coordinates.                         *)
(***************************************************************************)
EXTENDS Integers, Sequences, FiniteSets, TLC

\* ---------------------------------------------------------------- bounds
MaxExtent == 4
MaxEvents == 2
DragMargin == 1

\* ------------------------------------------------------------- vocabulary
Views == {"sag", "cor", "tra"}
Lines == {"vline", "hline"}
NoMarker == <<>>

\* The shapes of the marker volumes: the three extents differ.
RisingShape == <<MaxExtent - 2, MaxExtent - 1, MaxExtent>>
MarkerShapes == { RisingShape, <<MaxExtent, MaxExtent - 1, MaxExtent - 2>> }

\* numpy's shape[a] for a in 0..2
Shape(s, a) == s.marker_image[a + 1]

\* Position of the integer coordinate i, in half units.
Pos(i) == 2 * i

\* Python's int() of a position: truncation towards zero.
PyInt(p) == IF p >= 0 THEN p \div 2 ELSE -((-p) \div 2)

Call(op, view, name, arg) == [op |-> op, view |-> view, name |-> name, arg |-> arg]

Ret(s, emit) == [s |-> s, emit |-> emit, exc |-> FALSE]
Raise(s) == [s |-> s, emit |-> <<>>, exc |-> TRUE]

\* ------------------------------------------------------------ axis mapping
\* The axes argument of setImage: the volume axis that is the view's time
\* (slice) axis, its horizontal axis and its vertical axis.
ImageAxes(v) ==
    CASE v = "sag" -> [t |-> 0, x |-> 1, y |-> 2]
      [] v = "cor" -> [t |-> 2, x |-> 1, y |-> 0]
      [] v = "tra" -> [t |-> 1, x |-> 0, y |-> 2]

\* The volume axis along which a line of a view moves.
LineAxis(v, which) == IF which = "vline" THEN ImageAxes(v).x ELSE ImageAxes(v).y

\* The view whose slice axis is a.
ViewOfAxis(a) == CHOOSE v \in Views : ImageAxes(v).t = a

\* ymax as the extent of the first in-plane axis.
ymax_horizontal(s, v) == Shape(s, ImageAxes(v).x)

ymax(s, v) ==
    CASE v = "sag" -> Shape(s, 2)
      [] v = "cor" -> Shape(s, 0)
      [] v = "tra" -> Shape(s, 2)

\* --------------------------------------------------------------- timeline
\* ImageView.timeIndex for a timeline with tVals = 0..n-1 whose position is
\* bounded to [0, (n-1) * 1.02]: the last frame whose time is <= the position.
TimeIndex(n, p) ==
    IF n < 2 \/ p < 0 THEN 0
    ELSE IF p >= Pos(n - 1) THEN n - 1
    ELSE p \div 2

\* Whether InfiniteLine.setPos(p) moves the timeline, which stands on the
\* current frame: the bounded position differs from the one it has.  Before
\* the first setImage (n = 0) the timeline has no bounds.
TimeLineMoves(n, cur, p) ==
    IF n = 0 THEN p # Pos(cur)
    ELSE IF p < 0 THEN cur # 0
    ELSE IF p > Pos(n - 1) THEN TRUE
    ELSE p # Pos(cur)

\* timeLine.setPos(p) and ImageView.timeLineChanged: the frame index follows
\* the timeline, the timeline snaps to the frame (discreteTimeLine), and
\* sigTimeChanged calls time_changed.
TimeLineSetPos(s, v, p) ==
    LET n == IF s.marker_image = NoMarker THEN 0 ELSE Shape(s, ImageAxes(v).t)
        cur == s.views[v].currentIndex
    IN  IF TimeLineMoves(n, cur, p)
        THEN Ret([s EXCEPT !.views[v].currentIndex = TimeIndex(n, p)],
                 <<Call("time_changed", v, "", 0)>>)
        ELSE Ret(s, <<>>)

\* ------------------------------------------------------------ connections
\* Window.__init__: the slots of a view's sig_index_changed, after the two
\* the view connected itself.
WindowIndexConnections(v, idx) ==
    CASE v = "sag" -> << Call("update_hline", "cor", "", idx),
                         Call("update_vline", "tra", "", idx),
                         Call("set_saggital_data", "vol", "", idx) >>
      [] v = "cor" -> << Call("update_hline", "sag", "", idx),
                         Call("update_hline", "tra", "", idx),
                         Call("set_coronal_data", "vol", "", idx) >>
      [] v = "tra" -> << Call("update_vline", "sag", "", idx),
                         Call("update_vline", "cor", "", idx),
                         Call("set_transverse_data", "vol", "", idx) >>

\* SecionView.__init__ connects update_regions and update_scatter first.
ViewIndexConnections(v, idx) ==
    << Call("update_regions", v, "", idx), Call("update_scatter", v, "", idx) >>

\* The slots with the window's connections made before the view's own.
SigIndexChangedSlots_window_first(v, idx) ==
    WindowIndexConnections(v, idx) \o ViewIndexConnections(v, idx)

SigIndexChangedSlots(v, idx) ==
    ViewIndexConnections(v, idx) \o WindowIndexConnections(v, idx)

\* The connections with the two lines of the sagittal view exchanged.
LineTarget_exchanged(v, which) ==
    CASE v = "sag" /\ which = "hline" -> "tra"
      [] v = "sag" /\ which = "vline" -> "cor"
      [] v = "cor" /\ which = "hline" -> "sag"
      [] v = "cor" /\ which = "vline" -> "tra"
      [] v = "tra" /\ which = "hline" -> "cor"
      [] v = "tra" /\ which = "vline" -> "sag"

\* Window.__init__: the view whose update_index a line's
\* sig_position_changed is connected to.
LineTarget(v, which) ==
    CASE v = "sag" /\ which = "hline" -> "cor"
      [] v = "sag" /\ which = "vline" -> "tra"
      [] v = "cor" /\ which = "hline" -> "sag"
      [] v = "cor" /\ which = "vline" -> "tra"
      [] v = "tra" /\ which = "hline" -> "cor"
      [] v = "tra" /\ which = "vline" -> "sag"

\* ------------------------------------------------------------------ lines
\* The index a line's position stands for (the conversion of
\* VerticalLine / HorizontalLine.position_changed).
LineIndex(s, v, which) ==
    IF which = "vline"
    THEN PyInt(s.views[v].vline)
    ELSE ymax(s, v) - PyInt(s.views[v].hline)

\* InfiniteLine.setPos: a changed position is stored and, unless the line's
\* signals are blocked, sigPositionChanged calls position_changed.
LineSetPos(s, v, which, p, blocked) ==
    IF s.views[v][which] = p
    THEN Ret(s, <<>>)
    ELSE Ret([s EXCEPT !.views[v][which] = p],
             IF blocked THEN <<>> ELSE <<Call("position_changed", v, which, 0)>>)

position_changed(s, v, which) ==
    IF which = "hline" /\ s.marker_image = NoMarker
    THEN Raise(s)
    ELSE Ret(s, << Call("sig_position_changed", v, which, LineIndex(s, v, which)) >>)

\* The emission of a line's sig_position_changed: its one connected slot.
sig_position_changed(s, v, which, idx) ==
    Ret(s, << Call("update_index", LineTarget(v, which), "", idx) >>)

\* update_vline without blockSignals.
update_vline_unblocked(s, v, idx) == LineSetPos(s, v, "vline", Pos(idx), FALSE)

update_vline(s, v, idx) == LineSetPos(s, v, "vline", Pos(idx), TRUE)

\* update_hline that places the line at idx, without the flip.
update_hline_unflipped(s, v, idx) == LineSetPos(s, v, "hline", Pos(idx), TRUE)

update_hline(s, v, idx) ==
    IF s.marker_image = NoMarker
    THEN Raise(s)
    ELSE LineSetPos(s, v, "hline", Pos(ymax(s, v) - idx), TRUE)

update_index(s, v, idx) == TimeLineSetPos(s, v, Pos(idx))

\* time_changed without the comparison with last_idx.
time_changed_unchecked(s, v) ==
    Ret([s EXCEPT !.views[v].last_idx = s.views[v].currentIndex],
        << Call("sig_index_changed", v, "", s.views[v].currentIndex) >>)

time_changed(s, v) ==
    LET cur_idx == s.views[v].currentIndex
    IN  IF s.views[v].last_idx = cur_idx
        THEN Ret(s, <<>>)
        ELSE Ret([s EXCEPT !.views[v].last_idx = cur_idx],
                 << Call("sig_index_changed", v, "", cur_idx) >>)

\* The emission of a view's sig_index_changed: its slots in connection order.
sig_index_changed(s, v, idx) == Ret(s, SigIndexChangedSlots(v, idx))

\* ------------------------------------------------------------ volume view
set_saggital_data(s, idx) ==
    IF s.volume_view.volume_bounds = NoMarker
    THEN Ret(s, <<>>)
    ELSE Ret([s EXCEPT !.volume_view.planes.sag = s.volume_view.volume_bounds[1] - idx], <<>>)

\* set_coronal_data that takes the index from the sagittal view's line.
set_coronal_data_from_line(s, idx) ==
    IF s.volume_view.volume_bounds = NoMarker
    THEN Ret(s, <<>>)
    ELSE Ret([s EXCEPT !.volume_view.planes.cor =
                           ymax(s, "sag") - PyInt(s.views["sag"].hline)], <<>>)

set_coronal_data(s, idx) ==
    IF s.volume_view.volume_bounds = NoMarker
    THEN Ret(s, <<>>)
    ELSE Ret([s EXCEPT !.volume_view.planes.cor = idx], <<>>)

set_transverse_data(s, idx) ==
    IF s.volume_view.volume_bounds = NoMarker
    THEN Ret(s, <<>>)
    ELSE Ret([s EXCEPT !.volume_view.planes.tra = idx], <<>>)

\* The index a plane of the 3D view stands for.
PlaneIndex(s, v) ==
    IF v = "sag"
    THEN s.volume_view.volume_bounds[1] - s.volume_view.planes.sag
    ELSE s.volume_view.planes[v]

\* ---------------------------------------------------------------- points
\* Window.points is None or an array of rows (c0, c1, c2).  Coordinates are
\* kept in quarter units (4 = one pixel); NaN stands for a non-finite one.
NoPoints == [set |-> FALSE, data |-> <<>>]

NaN == -1000

Coord(i) == 4 * i

\* Arithmetic on coordinates: a non-finite operand gives a non-finite result.
Flip(top, c) == IF c = NaN THEN NaN ELSE Coord(top) - c

\* c.astype(int) == idx.  The cast truncates toward zero; what it makes of a
\* non-finite value depends on the platform: a value that is no index, or 0.
CastEquals(s, c, idx) ==
    IF c = NaN THEN s.nan_casts_to_zero /\ idx = 0
    ELSE (IF c >= 0 THEN c \div 4 ELSE -((-c) \div 4)) = idx

RECURSIVE SelectRows(_, _, _, _)
\* points[points[:, col].astype(int) == idx]
SelectRows(s, rows, col, idx) ==
    IF rows = <<>> THEN <<>>
    ELSE (IF CastEquals(s, Head(rows)[col + 1], idx) THEN <<Head(rows)>> ELSE <<>>)
         \o SelectRows(s, Tail(rows), col, idx)

\* The in-plane columns of rows as (x, y), with y counted from the far edge
\* of the view's vertical axis.
Projected(s, v, rows) ==
    LET ax == ImageAxes(v)
        top == IF v = "cor" THEN ymax(s, v) ELSE Shape(s, 2)
    IN  [i \in 1..Len(rows) |-> << rows[i][ax.x + 1], Flip(top, rows[i][ax.y + 1]) >>]

\* A view's get_coordinate_slice: the rows of the current slice, projected.
get_coordinate_slice(s, v) ==
    Projected(s, v, SelectRows(s, s.points.data, ImageAxes(v).t, s.views[v].currentIndex))

\* Indexing that gives a view of the array indexed.
MaskedIndexCopies_view == FALSE

\* numpy: points[mask, columns] with a boolean mask is a copy of the rows
\* selected, where points[:, columns] on its own would be a view of points.
MaskedIndexCopies == TRUE

\* The stored array after get_coordinate_slice has assigned the flipped
\* column to data_slice: as it was when data_slice is a copy, with the
\* column flipped in the rows selected when it is a view.
StoreAfterSlice(s, v) ==
    LET ax == ImageAxes(v)
        top == IF v = "cor" THEN ymax(s, v) ELSE Shape(s, 2)
        rows == s.points.data
    IN  IF MaskedIndexCopies THEN s.points
        ELSE [s.points EXCEPT !.data =
                 [i \in 1..Len(rows) |->
                     IF CastEquals(s, rows[i][ax.t + 1], s.views[v].currentIndex)
                     THEN [rows[i] EXCEPT ![ax.y + 1] = Flip(top, rows[i][ax.y + 1])]
                     ELSE rows[i]]]

update_scatter(s, v) ==
    IF ~s.points.set
    THEN Ret(s, <<>>)
    ELSE IF s.marker_image = NoMarker
    THEN Raise(s)
    ELSE Ret([s EXCEPT !.points = StoreAfterSlice(s, v),
                       !.views[v].sct = [set |-> TRUE, data |-> get_coordinate_slice(s, v)]],
             <<>>)

\* VolumeView.update_scatter of main.py: the first column is mirrored in the
\* stored array itself, and the scatter item is given that array.
volume_update_scatter(s) ==
    IF ~s.points.set \/ s.volume_view.volume_bounds = NoMarker
    THEN Raise(s)
    ELSE LET rows == s.points.data
             mirrored == [i \in 1..Len(rows) |->
                             [rows[i] EXCEPT ![1] = Flip(s.volume_view.volume_bounds[1], rows[i][1])]]
         IN  Ret([s EXCEPT !.points.data = mirrored,
                           !.volume_view.scatter_item = [set |-> TRUE, data |-> mirrored]],
                 <<>>)

\* Window.__init__: the slots of the panel's sig_roi_data_changed, in
\* connection order.
SigRoiDataChangedSlots ==
    << Call("update_scatter", "sag", "", 0), Call("update_scatter", "cor", "", 0),
       Call("update_scatter", "tra", "", 0), Call("volume_update_scatter", "vol", "", 0) >>

\* roi_path_added that keeps the array it holds when one is stored already.
roi_path_added_kept(s, read) ==
    IF ~read.ok
    THEN Raise(s)
    ELSE Ret([s EXCEPT !.points = IF s.points.set /\ read.loaded THEN s.points
                                  ELSE [set |-> read.loaded, data |-> read.data]],
             SigRoiDataChangedSlots)

\* ControlPanel.roi_path_added; read is what reading the file at the path
\* does: it raises (h5 without coordinate keys: read.ok false), there is no
\* reader for the extension (read.data absent), or it gives an array.
roi_path_added(s, read) ==
    IF ~read.ok
    THEN Raise(s)
    ELSE Ret([s EXCEPT !.points = [set |-> read.loaded, data |-> read.data]],
             SigRoiDataChangedSlots)

\* --------------------------------------------------------------- regions
RegionNames == {"r1", "r2"}

NoItem == [created |-> 0, visible |-> FALSE, image |-> -1]

HideAll(items) == [n \in DOMAIN items |-> [items[n] EXCEPT !.visible = FALSE]]

\* Whether region[currentIndex] along the view's slice axis is inside the
\* region volume.
SliceInBounds(s, v, region) ==
    s.views[v].currentIndex < region.shape[ImageAxes(v).t + 1]

\* The body of the loop with a new image item made on every pass.
UpdateRegionItem_remade(s, v, region) ==
    LET name == region.name
        old == s.views[v].region_image_items[name]
        item == [created |-> old.created + 1, visible |-> TRUE, image |-> -1]
        s1 == [s EXCEPT !.views[v].region_image_items[name] = item]
    IN  IF name \notin s.region_colors \/ ~SliceInBounds(s, v, region)
        THEN Raise(s1)
        ELSE Ret([s1 EXCEPT !.views[v].region_image_items[name] =
                        [item EXCEPT !.visible = TRUE,
                                     !.image = s.views[v].currentIndex]], <<>>)

\* The body of the loop of SecionView.update_regions for one stored region.
\* An exception leaves what the body did before it.
UpdateRegionItem(s, v, region) ==
    LET name == region.name
        old == s.views[v].region_image_items[name]
        item == IF old.created = 0
                THEN [created |-> 1, visible |-> TRUE, image |-> -1]
                ELSE old
        s1 == [s EXCEPT !.views[v].region_image_items[name] = item]
    IN  IF name \notin s.region_colors \/ ~SliceInBounds(s, v, region)
        THEN Raise(s1)
        ELSE Ret([s1 EXCEPT !.views[v].region_image_items[name] =
                        [item EXCEPT !.visible = TRUE,
                                     !.image = s.views[v].currentIndex]], <<>>)

RECURSIVE UpdateRegionsLoop(_, _, _)
UpdateRegionsLoop(s, v, i) ==
    IF i > Len(s.regions) THEN Ret(s, <<>>)
    ELSE LET r == UpdateRegionItem(s, v, s.regions[i])
         IN  IF r.exc THEN r ELSE UpdateRegionsLoop(r.s, v, i + 1)

update_regions(s, v) ==
    UpdateRegionsLoop(
        [s EXCEPT !.views[v].region_image_items = HideAll(s.views[v].region_image_items)],
        v, 1)

\* The body of the loop of VolumeView.update_regions for the i-th stored
\* region.  The mesh's vertex array is mirrored where it is stored.
UpdateMeshItem(s, i) ==
    LET region == s.regions[i]
        name == region.name
        old == s.volume_view.mesh_items[name]
    IN  IF old.created = 0 /\ (~region.mesh.present \/ s.volume_view.volume_bounds = NoMarker)
        THEN Raise(s)
        ELSE LET x == s.volume_view.volume_bounds[1] - region.mesh.x
                 s1 == IF old.created # 0 THEN s
                       ELSE [s EXCEPT !.regions[i].mesh.x = x,
                                      !.volume_view.mesh_items[name] =
                                          [created |-> 1, visible |-> TRUE, image |-> x]]
                 s2 == [s1 EXCEPT !.volume_view.mesh_items[name].visible = TRUE]
             IN  IF name \notin s.region_colors THEN Raise(s2) ELSE Ret(s2, <<>>)

RECURSIVE UpdateMeshesLoop(_, _)
UpdateMeshesLoop(s, i) ==
    IF i > Len(s.regions) THEN Ret(s, <<>>)
    ELSE LET r == UpdateMeshItem(s, i)
         IN  IF r.exc THEN r ELSE UpdateMeshesLoop(r.s, i + 1)

volume_update_regions(s) ==
    UpdateMeshesLoop(
        [s EXCEPT !.volume_view.mesh_items = HideAll(s.volume_view.mesh_items)], 1)

\* Window.__init__: the slots of sig_regions_updated, in connection order.
SigRegionsUpdatedSlots ==
    << Call("update_regions", "sag", "", 0), Call("update_regions", "cor", "", 0),
       Call("update_regions", "tra", "", 0), Call("volume_update_regions", "vol", "", 0) >>

RegionIndex(regions, name) ==
    IF \E i \in 1..Len(regions) : regions[i].name = name
    THEN CHOOSE i \in 1..Len(regions) : regions[i].name = name
    ELSE 0

RemoveAt(seq, i) == [j \in 1..(Len(seq) - 1) |-> IF j < i THEN seq[j] ELSE seq[j + 1]]

\* add_region that broadcasts the update although the load has failed.
add_region_broadcast(s, name, load) ==
    IF ~load.ok
    THEN [s |-> s, emit |-> SigRegionsUpdatedSlots, exc |-> TRUE]
    ELSE LET entry == [name |-> name, shape |-> load.shape,
                       mesh |-> [present |-> load.mesh, x |-> load.x]]
             i == RegionIndex(s.regions, name)
         IN  Ret([s EXCEPT !.regions = IF i = 0 THEN Append(s.regions, entry)
                                       ELSE [s.regions EXCEPT ![i] = entry]],
                 SigRegionsUpdatedSlots)

\* Window.add_region; load is what load_region does for the name: it raises
\* (load.ok false) or returns a volume of load.shape with or without a mesh.
\* Assigning to a name already in the dict keeps its place.
add_region(s, name, load) ==
    IF ~load.ok
    THEN Raise(s)
    ELSE LET entry == [name |-> name, shape |-> load.shape,
                       mesh |-> [present |-> load.mesh, x |-> load.x]]
             i == RegionIndex(s.regions, name)
         IN  Ret([s EXCEPT !.regions = IF i = 0 THEN Append(s.regions, entry)
                                       ELSE [s.regions EXCEPT ![i] = entry]],
                 SigRegionsUpdatedSlots)

remove_region(s, name) ==
    LET i == RegionIndex(s.regions, name)
    IN  Ret([s EXCEPT !.regions = IF i = 0 THEN s.regions ELSE RemoveAt(s.regions, i)],
            SigRegionsUpdatedSlots)

\* update_region_color that stores the colour and leaves it at that.
update_region_color_silent(s, name) ==
    Ret([s EXCEPT !.region_colors = s.region_colors \cup {name}], <<>>)

update_region_color(s, name) ==
    Ret([s EXCEPT !.region_colors = s.region_colors \cup {name}], SigRegionsUpdatedSlots)

\* toggle_item that has the region added before its colour is set.
toggle_item_region_first(s, name, load) ==
    IF name \notin s.selected_items
    THEN Ret([s EXCEPT !.selected_items = s.selected_items \cup {name}],
             << Call("add_region", "win", name, load),
                Call("update_region_color", "win", name, 0) >>)
    ELSE Ret([s EXCEPT !.selected_items = s.selected_items \ {name}],
             << Call("remove_region", "win", name, 0) >>)

\* SearchSelectTreeWidget.toggle_item with the slots of the signals it emits:
\* selecting stores the item, sets its colour (ControlPanel.region_color_changed
\* passes it on to Window.update_region_color) and then has the region added
\* (ControlPanel.region_selected); deselecting has it removed.
toggle_item(s, name, load) ==
    IF name \notin s.selected_items
    THEN Ret([s EXCEPT !.selected_items = s.selected_items \cup {name}],
             << Call("update_region_color", "win", name, 0),
                Call("add_region", "win", name, load) >>)
    ELSE Ret([s EXCEPT !.selected_items = s.selected_items \ {name}],
             << Call("remove_region", "win", name, 0) >>)

\* --------------------------------------------------------- region slices
\* A region volume of the given shape: an array indexed from 0 along each of
\* its three axes, 1 in the voxels raised and 0 elsewhere.
RegionVolume(shape, raised) ==
    [a0 \in 0..(shape[1] - 1) |->
        [a1 \in 0..(shape[2] - 1) |->
            [a2 \in 0..(shape[3] - 1) |-> IF <<a0, a1, a2>> \in raised THEN 1 ELSE 0]]]

\* numpy: a[i, :, :], a[:, i, :] and a[:, :, i] of a three-dimensional array.
TakeFirst(a, i) == a[i]
TakeSecond(a, i) == [j \in DOMAIN a |-> [k \in DOMAIN a[j][i] |-> a[j][i][k]]]
TakeLast(a, i) == [j \in DOMAIN a |-> [k \in DOMAIN a[j] |-> a[j][k][i]]]

\* numpy: np.swapaxes(m, 0, 1) and m[::-1, :] of a two-dimensional array.
SwapAxes(m) == [k \in DOMAIN m[0] |-> [j \in DOMAIN m |-> m[j][k]]]
ReverseRows(m) == [j \in DOMAIN m |-> m[Cardinality(DOMAIN m) - 1 - j]]

\* CoronalView.get_region_slice with the rows left in the order of the volume.
get_region_slice_unreversed(v, region, idx) ==
    CASE v = "sag" -> ReverseRows(SwapAxes(TakeFirst(region, idx)))
      [] v = "cor" -> TakeLast(region, idx)
      [] v = "tra" -> ReverseRows(SwapAxes(TakeSecond(region, idx)))

\* get_region_slice of the three views, for currentIndex idx.
get_region_slice(v, region, idx) ==
    CASE v = "sag" -> ReverseRows(SwapAxes(TakeFirst(region, idx)))
      [] v = "cor" -> TakeLast(ReverseRows(region), idx)
      [] v = "tra" -> ReverseRows(SwapAxes(TakeSecond(region, idx)))

\* ------------------------------------------------- marker slices displayed
\* numpy: a[:, :, ::-1] of a three-dimensional array.
ReverseLast(a) ==
    [j \in DOMAIN a |-> [k \in DOMAIN a[j] |->
        [l \in DOMAIN a[j][k] |-> a[j][k][Cardinality(DOMAIN a[j][k]) - 1 - l]]]]

\* The element of img at t, x and y along the axes that axes gives these names.
AtAxes(img, axes, t, x, y) ==
    LET i == [n \in 0..2 |-> IF n = axes.t THEN t ELSE IF n = axes.x THEN x ELSE y]
    IN  img[i[0]][i[1]][i[2]]

\* The extent of img along axis n.
ExtentOf(img, n) ==
    CASE n = 0 -> Cardinality(DOMAIN img)
      [] n = 1 -> Cardinality(DOMAIN img[0])
      [] n = 2 -> Cardinality(DOMAIN img[0][0])

\* ImageView.updateImage for imageAxisOrder 'col-major': the image is
\* transposed to (t, x, y), so the frame is indexed by x and then y.
FrameShown_col_major(img, axes, idx) ==
    [x \in 0..(ExtentOf(img, axes.x) - 1) |->
        [y \in 0..(ExtentOf(img, axes.y) - 1) |-> AtAxes(img, axes, idx, x, y)]]

\* ImageView.updateImage for imageAxisOrder 'row-major', which run sets: the
\* image is transposed to (t, y, x) and the frame of the current index is
\* given to the image item, which draws element [row][column] at
\* x = column, y = row.
FrameShown(img, axes, idx) ==
    [y \in 0..(ExtentOf(img, axes.y) - 1) |->
        [x \in 0..(ExtentOf(img, axes.x) - 1) |-> AtAxes(img, axes, idx, x, y)]]

\* The array update_marker_image gives to setImage.
SetImageArgument(v, marker) ==
    CASE v = "sag" -> ReverseLast(marker)
      [] v = "cor" -> ReverseRows(marker)
      [] v = "tra" -> ReverseLast(marker)

\* The frame a view displays of the marker at its index idx.
MarkerFrame(v, marker, idx) == FrameShown(SetImageArgument(v, marker), ImageAxes(v), idx)

\* ---------------------------------------------------------------- marker
\* SecionView.update_marker_image, first statement: setImage shows the first
\* frame and puts the timeline on 0; the second statement follows as a call
\* of its own, after the slots of a sigTimeChanged the first one caused.
update_marker_image(s, v) ==
    LET mid == Shape(s, ImageAxes(v).t) \div 2
        moved == s.views[v].currentIndex # 0
    IN  Ret([s EXCEPT !.views[v].currentIndex = 0],
            (IF moved THEN <<Call("time_changed", v, "", 0)>> ELSE <<>>)
            \o <<Call("update_marker_image_setPos", v, "", mid)>>)

\* SecionView.update_marker_image, second statement: timeLine.setPos(mid).
update_marker_image_setPos(s, v, mid) == TimeLineSetPos(s, v, Pos(mid))

\* marker_image_updated that gives the coronal plane the centre of the second
\* axis and the transverse plane that of the third.
marker_image_updated_exchanged(s) ==
    LET s0 == [s EXCEPT !.volume_view.volume_bounds = s.marker_image]
        s1 == set_saggital_data(s0, Shape(s, 0) \div 2).s
        s2 == set_coronal_data(s1, Shape(s, 1) \div 2).s
        s3 == set_transverse_data(s2, Shape(s, 2) \div 2).s
    IN  Ret(s3, <<>>)

marker_image_updated(s) ==
    LET s0 == [s EXCEPT !.volume_view.volume_bounds = s.marker_image]
        s1 == set_saggital_data(s0, Shape(s, 0) \div 2).s
        s2 == set_coronal_data(s1, Shape(s, 2) \div 2).s
        s3 == set_transverse_data(s2, Shape(s, 1) \div 2).s
    IN  Ret(s3, <<>>)

\* Window.__init__: the slots of sig_marker_image_updated, in connection order.
SigMarkerImageUpdatedSlots ==
    << Call("update_marker_image", "sag", "", 0), Call("update_marker_image", "cor", "", 0),
       Call("update_marker_image", "tra", "", 0), Call("marker_image_updated", "vol", "", 0) >>

\* Window.set_marker; shape is the shape of the volume load_marker returns.
set_marker(s, shape) ==
    Ret([s EXCEPT !.marker_image = shape], SigMarkerImageUpdatedSlots)

\* --------------------------------------------------------------- dispatch
Exec(s, c) ==
    CASE c.op = "position_changed" -> position_changed(s, c.view, c.name)
      [] c.op = "sig_position_changed" -> sig_position_changed(s, c.view, c.name, c.arg)
      [] c.op = "update_index" -> update_index(s, c.view, c.arg)
      [] c.op = "time_changed" -> time_changed(s, c.view)
      [] c.op = "sig_index_changed" -> sig_index_changed(s, c.view, c.arg)
      [] c.op = "update_regions" -> update_regions(s, c.view)
      [] c.op = "update_scatter" -> update_scatter(s, c.view)
      [] c.op = "volume_update_scatter" -> volume_update_scatter(s)
      [] c.op = "roi_path_added" -> roi_path_added(s, c.arg)
      [] c.op = "update_vline" -> update_vline(s, c.view, c.arg)
      [] c.op = "update_hline" -> update_hline(s, c.view, c.arg)
      [] c.op = "set_saggital_data" -> set_saggital_data(s, c.arg)
      [] c.op = "set_coronal_data" -> set_coronal_data(s, c.arg)
      [] c.op = "set_transverse_data" -> set_transverse_data(s, c.arg)
      [] c.op = "volume_update_regions" -> volume_update_regions(s)
      [] c.op = "toggle_item" -> toggle_item(s, c.name, c.arg)
      [] c.op = "update_region_color" -> update_region_color(s, c.name)
      [] c.op = "add_region" -> add_region(s, c.name, c.arg)
      [] c.op = "remove_region" -> remove_region(s, c.name)
      [] c.op = "set_marker" -> set_marker(s, c.arg)
      [] c.op = "update_marker_image" -> update_marker_image(s, c.view)
      [] c.op = "update_marker_image_setPos" -> update_marker_image_setPos(s, c.view, c.arg)
      [] c.op = "marker_image_updated" -> marker_image_updated(s)

\* The frames after the k-th call of the top frame has been taken out and
\* the calls it makes have been put on top.
Taken(frames, k, emit) ==
    LET top == frames[1]
        rest == [j \in 1..(Len(top) - 1) |-> IF j < k THEN top[j] ELSE top[j + 1]]
    IN  (IF emit = <<>> THEN <<>> ELSE <<emit>>)
        \o (IF rest = <<>> THEN <<>> ELSE <<rest>>)
        \o Tail(frames)

Frames(emit) == IF emit = <<>> THEN <<>> ELSE <<emit>>

RECURSIVE Run(_, _)
\* The state when every pending call has been made, slots in connection order.
Run(s, frames) ==
    IF frames = <<>> THEN s
    ELSE LET r == Exec(s, frames[1][1])
         IN  Run(r.s, Taken(frames, 1, r.emit))

\* The objects as their constructors leave them, before Window.__init__
\* sets the marker.
Constructed(points) ==
    [ marker_image |-> NoMarker,
      points |-> points,
      regions |-> <<>>,
      region_colors |-> {},
      selected_items |-> {},
      nan_casts_to_zero |-> FALSE,
      views |-> [v \in Views |->
                    [ currentIndex |-> 0, last_idx |-> -1, vline |-> 0, hline |-> 0,
                      region_image_items |-> [n \in RegionNames |-> NoItem],
                      sct |-> NoPoints ]],
      volume_view |-> [ volume_bounds |-> NoMarker,
                        scatter_item |-> NoPoints,
                        planes |-> [sag |-> 0, cor |-> 0, tra |-> 0],
                        mesh_items |-> [n \in RegionNames |-> NoItem] ] ]

\* Window.__init__ with the given points and the marker of the given shape.
Started(shape, points) ==
    Run(Constructed(points), << <<Call("set_marker", "win", "", shape)>> >>)

\* A point array: a point on integer coordinates, one half way between
\* them and one three quarters of the way to the next.
SamplePoints ==
    [set |-> TRUE,
     data |-> << <<Coord(1), Coord(1), Coord(2)>>, <<2, 6, 10>>, <<3, 7, 11>> >>]

\* What load_region returns for a region of the marker's atlas with a mesh.
LoadedRegion(shape) == [ok |-> TRUE, shape |-> shape, mesh |-> TRUE, x |-> 0]

\* The window after the user has then selected a region in the tree.
Selected(s, name, load) == Run(s, << <<Call("toggle_item", "win", name, load)>> >>)

\* ------------------------------------------------------ files and loading
\* The marker lines of the catalog, with the name of the stack file in the
\* URL of each (Window.marker_structure).
MarkerNames == {"m1", "m2"}
MarkerStem == [m1 |-> "T_AVG_m1", m2 |-> "T_AVG_m2"]

File(folder, stem, ext) == [folder |-> folder, stem |-> stem, ext |-> ext]
RegionFile(name, ext) == File("regions", name, ext)
MarkerFile(name) == File("markers", MarkerStem[name], "tif")

\* What the server gives for a download: nothing (urlretrieve raises), part
\* of what is asked for (a region's volume without its mesh, a marker's zip
\* without the stack file named in the URL), or all of it.
NetOutcomes == {"unreachable", "partial", "full"}

\* The result of a load: the folders after it, whether it returned, the
\* number of downloads it made, and whether it returned a mesh.
Loaded(d, ok, fetched, mesh) == [disk |-> d, ok |-> ok, fetched |-> fetched, mesh |-> mesh]

\* Window.download_region: the volume is fetched, then the mesh; a mesh the
\* server does not have is passed over.
download_region(d, name, net) ==
    CASE net = "unreachable" -> Loaded(d, FALSE, 1, FALSE)
      [] net = "partial" -> Loaded(d \cup {RegionFile(name, "tif")}, TRUE, 1, FALSE)
      [] net = "full" ->
            Loaded(d \cup {RegionFile(name, "tif"), RegionFile(name, "stl")}, TRUE, 1, FALSE)

\* load_region that downloads whether or not the file is there.
load_region_refetch(d, name, net) ==
    LET got == download_region(d, name, net)
    IN  Loaded(got.disk, got.ok, got.fetched, got.ok /\ RegionFile(name, "stl") \in got.disk)

\* Window.load_region: the volume is downloaded if its file is not in the
\* folder, then read; the mesh is read if its file is there.
load_region(d, name, net) ==
    LET got == IF RegionFile(name, "tif") \in d THEN Loaded(d, TRUE, 0, FALSE)
               ELSE download_region(d, name, net)
    IN  Loaded(got.disk, got.ok, got.fetched, got.ok /\ RegionFile(name, "stl") \in got.disk)

\* Window.download_marker: the zip is fetched, extracted into the folder and
\* removed.
download_marker(d, name, net) ==
    CASE net = "unreachable" -> Loaded(d, FALSE, 1, FALSE)
      [] net = "partial" -> Loaded(d \cup {File("markers", "readme", "txt")}, TRUE, 1, FALSE)
      [] net = "full" -> Loaded(d \cup {MarkerFile(name)}, TRUE, 1, FALSE)

\* Window.load_marker: the stack is downloaded if its file is not in the
\* folder, then read, which raises if the file is still not there.
load_marker(d, name, net) ==
    LET got == IF MarkerFile(name) \in d THEN Loaded(d, TRUE, 0, FALSE)
               ELSE download_marker(d, name, net)
    IN  Loaded(got.disk, got.ok /\ MarkerFile(name) \in got.disk, got.fetched, FALSE)

\* The folders when the window has started with the first marker line.
StartedDisk == {MarkerFile("m1")}

\* --------------------------------------- views.py: the 3D view on its own
\* The transform of a plane item is a translation <<x, y, z>>.
Identity == <<0, 0, 0>>

\* GLGraphicsItem.translate: the translation is added to the item's transform.
Translate(tr, dx, dy, dz) == <<tr[1] + dx, tr[2] + dy, tr[3] + dz>>

\* views.VolumeView.__init__: no bounds yet, the planes where they are made,
\* no scatter item; with config.roi_set_items as config.py leaves it.
ViewsConstructed ==
    [ volume_bounds |-> NoMarker,
      saggital_plane |-> Identity, coronal_plane |-> Identity,
      transverse_plane |-> Identity,
      scatter_items |-> <<>>, roi_set_items |-> <<>> ]

set_saggital_position(o, idx) ==
    IF o.volume_bounds = NoMarker THEN o
    ELSE [o EXCEPT !.saggital_plane = Translate(Identity, o.volume_bounds[1] - idx, 0, 0)]

\* set_coronal_position without the resetTransform before the translate.
set_coronal_position_unreset(o, idx) ==
    IF o.volume_bounds = NoMarker THEN o
    ELSE [o EXCEPT !.coronal_plane = Translate(o.coronal_plane, 0, 0, idx)]

set_coronal_position(o, idx) ==
    IF o.volume_bounds = NoMarker THEN o
    ELSE [o EXCEPT !.coronal_plane = Translate(Identity, 0, 0, idx)]

set_transverse_position(o, idx) ==
    IF o.volume_bounds = NoMarker THEN o
    ELSE [o EXCEPT !.transverse_plane = Translate(Identity, 0, idx, 0)]

\* views.VolumeView.marker_image_updated with config.marker_image of the
\* given shape.  The extents of the plane items follow from volume_bounds.
views_marker_image_updated(o, shape) ==
    LET o0 == [o EXCEPT !.volume_bounds = shape]
        o1 == set_saggital_position(o0, shape[1] \div 2)
        o2 == set_coronal_position(o1, shape[3] \div 2)
    IN  set_transverse_position(o2, shape[2] \div 2)

\* ------------------------------ views.py: a section view and its ROI sets
\* The names of ROI sets, the colours of their tree items and the arrays of
\* coordinates they hold.
RoiSetNames == {"s1", "s2"}
RoiColors == {"white", "red"}
RoiCoordinates == { SamplePoints.data, << <<Coord(0), Coord(2), Coord(3)>> >> }

\* A function without the argument n.
Without(f, n) == [m \in DOMAIN f \ {n} |-> f[m]]

\* views.SecionView.__init__ for a view of the given kind, with
\* config.marker_image as it is then.  made counts the scatter items that
\* were constructed for a name.
SectionConstructed(kind, marker) ==
    [ kind |-> kind, marker_image |-> marker, currentIndex |-> 0,
      scatter_items |-> <<>>, scatter_coordinates |-> <<>>,
      made |-> [n \in RoiSetNames |-> 0] ]

\* What get_coordinate_slice reads of the view and of config.
SectionContext(o) ==
    [ marker_image |-> o.marker_image, nan_casts_to_zero |-> FALSE,
      views |-> [v \in Views |-> [currentIndex |-> o.currentIndex]] ]

\* get_coordinate_slice that leaves the second column as it is in the points.
views_get_coordinate_slice_unflipped(o, points) ==
    LET rows == SelectRows(SectionContext(o), points, ImageAxes(o.kind).t, o.currentIndex)
    IN  [i \in 1..Len(rows) |->
            << rows[i][ImageAxes(o.kind).x + 1], rows[i][ImageAxes(o.kind).y + 1] >>]

\* get_coordinate_slice(points) of the views of views.py.
views_get_coordinate_slice(o, points) ==
    Projected(SectionContext(o), o.kind,
              SelectRows(SectionContext(o), points, ImageAxes(o.kind).t, o.currentIndex))

\* views.SecionView.update_scatter: every scatter item is given the slice of
\* the coordinates kept for its name; without a marker the slice cannot be
\* computed.
views_update_scatter(o) ==
    IF DOMAIN o.scatter_items = {} THEN Ret(o, <<>>)
    ELSE IF \E n \in DOMAIN o.scatter_items : n \notin DOMAIN o.scatter_coordinates
    THEN Raise(o)
    ELSE IF o.marker_image = NoMarker THEN Raise(o)
    ELSE Ret([o EXCEPT !.scatter_items =
                 [n \in DOMAIN o.scatter_items |->
                     [o.scatter_items[n] EXCEPT
                         !.data = views_get_coordinate_slice(o, o.scatter_coordinates[n])]]],
             <<>>)

\* views.SecionView.add_scatter
add_scatter(o, tree_item) ==
    LET name == tree_item.name
        o1 == IF name \in DOMAIN o.scatter_items THEN o
              ELSE [o EXCEPT
                      !.scatter_items =
                          (name :> [brush |-> tree_item.color, data |-> <<>>,
                                    made |-> o.made[name] + 1]) @@ o.scatter_items,
                      !.scatter_coordinates =
                          (name :> tree_item.coordinates) @@ o.scatter_coordinates,
                      !.made[name] = o.made[name] + 1]
    IN  views_update_scatter(o1)

\* update_scatter_color that puts a new scatter item in the place of the old.
update_scatter_color_remade(o, tree_item) ==
    LET name == tree_item.name
    IN  IF name \notin DOMAIN o.scatter_items THEN Ret(o, <<>>)
        ELSE Ret([o EXCEPT !.scatter_items[name] =
                               [brush |-> tree_item.color, data |-> <<>>,
                                made |-> o.made[name] + 1],
                           !.made[name] = o.made[name] + 1], <<>>)

\* views.SecionView.update_scatter_color
update_scatter_color(o, tree_item) ==
    LET name == tree_item.name
    IN  IF name \notin DOMAIN o.scatter_items THEN Ret(o, <<>>)
        ELSE Ret([o EXCEPT !.scatter_items[name].brush = tree_item.color], <<>>)

\* remove_scatter that deletes the coordinates kept for the name and leaves
\* the scatter item.
remove_scatter_coordinates(o, tree_item) ==
    LET name == tree_item.name
    IN  IF name \in DOMAIN o.scatter_items
        THEN Ret([o EXCEPT !.scatter_coordinates = Without(o.scatter_coordinates, name)], <<>>)
        ELSE Ret(o, <<>>)

\* views.SecionView.remove_scatter
remove_scatter(o, tree_item) ==
    LET name == tree_item.name
    IN  IF name \in DOMAIN o.scatter_items
        THEN Ret([o EXCEPT !.scatter_items = Without(o.scatter_items, name)], <<>>)
        ELSE Ret(o, <<>>)

\* ------------------------------ views.py: the ROI sets in the 3D view
\* numpy: a copy of the rows with the first column c replaced by extent0 - c.
MirroredCopy(rows, extent0) ==
    [i \in 1..Len(rows) |-> [rows[i] EXCEPT ![1] = Flip(extent0, rows[i][1])]]

\* The scatter item update_scatter makes or keeps for a name of
\* config.roi_set_items, given the positions of a newly made item.
ShownScatterItem(o, n, made) ==
    [ pos |-> IF n \in DOMAIN o.scatter_items THEN o.scatter_items[n].pos ELSE made,
      color |-> o.roi_set_items[n].color, visible |-> TRUE ]

\* update_scatter of the 3D view that gives a new item the coordinates as
\* they are stored.
views_volume_update_scatter_unmirrored(o) ==
    IF DOMAIN o.roi_set_items \ DOMAIN o.scatter_items # {} /\ o.volume_bounds = NoMarker
    THEN Raise(o)
    ELSE Ret([o EXCEPT !.scatter_items =
                 [n \in DOMAIN o.scatter_items \cup DOMAIN o.roi_set_items |->
                     IF n \in DOMAIN o.roi_set_items
                     THEN ShownScatterItem(o, n, o.roi_set_items[n].coordinates)
                     ELSE [o.scatter_items[n] EXCEPT !.visible = FALSE]]],
             <<>>)

\* views.VolumeView.update_scatter: every scatter item is hidden; a name of
\* config.roi_set_items without an item gets one at the mirrored copy of its
\* coordinates, which needs the volume bounds; the item of each name is
\* given the colour of the tree item and shown.
views_volume_update_scatter(o) ==
    IF DOMAIN o.roi_set_items \ DOMAIN o.scatter_items # {} /\ o.volume_bounds = NoMarker
    THEN Raise(o)
    ELSE Ret([o EXCEPT !.scatter_items =
                 [n \in DOMAIN o.scatter_items \cup DOMAIN o.roi_set_items |->
                     IF n \in DOMAIN o.roi_set_items
                     THEN ShownScatterItem(o, n,
                              MirroredCopy(o.roi_set_items[n].coordinates, o.volume_bounds[1]))
                     ELSE [o.scatter_items[n] EXCEPT !.visible = FALSE]]],
             <<>>)

\* ------------------------------------------------------------------ state
VARIABLES
    win,          \* the window with its views and the stores it holds
    stack,        \* the frames of calls still to be made for the current event
    log,          \* the event being handled and the calls made for it so far
    events,       \* the number of user events so far
    lastEmitted,  \* per view, the index its sig_index_changed carried last
    expected,     \* the state the current event leads to with slots in connection order
    vol,          \* a VolumeView of views.py
    disk,         \* the files in the marker and region folders
    sec           \* a SecionView of views.py, with config.marker_image

vars == <<win, stack, log, events, lastEmitted, expected, vol, disk, sec>>

Logged(c, exc) ==
    [op |-> c.op, view |-> c.view, name |-> c.name, arg |-> c.arg, exc |-> exc]

Idle == stack = <<>> /\ log = <<>>

Init ==
    /\ \E shape \in MarkerShapes : win = Started(shape, NoPoints)
    /\ stack = <<>>
    /\ log = <<>>
    /\ events = 0
    /\ lastEmitted = [v \in Views |-> win.views[v].last_idx]
    /\ expected = <<>>
    /\ vol = ViewsConstructed
    /\ disk = StartedDisk
    /\ sec = SectionConstructed("sag", NoMarker)

\* ----------------------------------------------------------- user events
\* The positions a line can be dragged to: on and between the pixels of its
\* axis, and up to DragMargin pixels outside the image.
DragPositions(s, v, which) ==
    Pos(-DragMargin) .. Pos(Shape(s, LineAxis(v, which)) + DragMargin)

\* The positions the timeline below a view can be dragged to.
TimelinePositions(s, v) == -1 .. (Pos(Shape(s, ImageAxes(v).t) - 1) + 1)

\* The user drags a line of a view to p (InfiniteLine.mouseDragEvent: setPos).
UserDrag(v, which, p, r) ==
    /\ Idle
    /\ events < MaxEvents
    /\ win.views[v][which] # p
    /\ win' = r.s
    /\ stack' = Frames(r.emit)
    /\ log' = << Logged(Call("drag", v, which, p), FALSE) >>
    /\ events' = events + 1
    /\ UNCHANGED <<lastEmitted, vol, disk, sec>>

Drag ==
    \E v \in Views, which \in Lines :
        \E p \in DragPositions(win, v, which) :
            /\ UserDrag(v, which, p, LineSetPos(win, v, which, p, FALSE))
            /\ UNCHANGED expected

\* The user drags the timeline of a view to p.
TimelineDrag ==
    \E v \in Views :
        \E p \in TimelinePositions(win, v) :
            LET r == TimeLineSetPos(win, v, p)
            IN  /\ Idle
                /\ events < MaxEvents
                /\ r.emit # <<>>
                /\ win' = r.s
                /\ stack' = Frames(r.emit)
                /\ log' = << Logged(Call("timeline_drag", v, "", p), FALSE) >>
                /\ events' = events + 1
                /\ UNCHANGED <<lastEmitted, expected, vol, disk, sec>>

\* ------------------------------------------------------------- the calls
\* The k-th call of the top frame is made, if it is a call of op.  The log
\* keeps every call made, or (keep false) the event and a note that a call
\* was made before one connected earlier.
MakeAt(op, k, keep) ==
    /\ stack # <<>>
    /\ k \in 1..Len(stack[1])
    /\ stack[1][k].op = op
    /\ LET c == stack[1][k]
           r == Exec(win, c)
       IN  /\ win' = r.s
           /\ stack' = Taken(stack, k, r.emit)
           /\ log' = IF keep THEN Append(log, Logged(c, r.exc))
                     ELSE IF k = 1 THEN log
                     ELSE << log[1], Logged(Call("reordered", "", "", 0), FALSE) >>
           /\ lastEmitted' = IF op = "sig_index_changed"
                             THEN [lastEmitted EXCEPT ![c.view] = c.arg]
                             ELSE lastEmitted
    /\ UNCHANGED <<events, expected, vol, disk, sec>>

\* Qt calls the slots of a signal in the order of their connection.
Make(op) == MakeAt(op, 1, TRUE)

PositionChanged == Make("position_changed")
SigPositionChanged == Make("sig_position_changed")
UpdateIndex == Make("update_index")
TimeChanged == Make("time_changed")
SigIndexChanged == Make("sig_index_changed")
UpdateRegions == Make("update_regions")
UpdateScatter == Make("update_scatter")
UpdateVline == Make("update_vline")
UpdateHline == Make("update_hline")
SetSaggitalData == Make("set_saggital_data")
SetCoronalData == Make("set_coronal_data")
SetTransverseData == Make("set_transverse_data")

\* The handler of the event returns to the event loop.
Return ==
    /\ stack = <<>>
    /\ log # <<>>
    /\ log' = <<>>
    /\ UNCHANGED <<win, stack, events, lastEmitted, expected, vol, disk, sec>>

FanOut ==
    \/ PositionChanged \/ SigPositionChanged \/ UpdateIndex \/ TimeChanged
    \/ SigIndexChanged \/ UpdateRegions \/ UpdateScatter \/ UpdateVline
    \/ UpdateHline \/ SetSaggitalData \/ SetCoronalData \/ SetTransverseData

Next == Drag \/ TimelineDrag \/ FanOut \/ Return

Spec == Init /\ [][Next]_vars

\* ------------------------------------------- slots called in any order
\* The window with points, after the selection of a region.
InitAnyOrder ==
    /\ win = Selected(Started(RisingShape, SamplePoints), "r1", LoadedRegion(RisingShape))
    /\ stack = <<>>
    /\ log = <<>>
    /\ events = 0
    /\ lastEmitted = [v \in Views |-> win.views[v].last_idx]
    /\ expected = <<>>
    /\ vol = ViewsConstructed
    /\ disk = StartedDisk
    /\ sec = SectionConstructed("sag", NoMarker)

\* A drag, with the state it leads to when the slots are called in the order
\* of their connection.
DragRecorded ==
    \E v \in Views, which \in Lines :
        \E p \in DragPositions(win, v, which) :
            LET r == LineSetPos(win, v, which, p, FALSE)
            IN  /\ UserDrag(v, which, p, r)
                /\ expected' = Run(r.s, Frames(r.emit))

\* Any of the slots that are still to be called for an emission is called.
MakeAny(op) ==
    \E k \in 1..(IF stack = <<>> THEN 0 ELSE Len(stack[1])) : MakeAt(op, k, FALSE)

AnyPositionChanged == MakeAny("position_changed")
AnySigPositionChanged == MakeAny("sig_position_changed")
AnyUpdateIndex == MakeAny("update_index")
AnyTimeChanged == MakeAny("time_changed")
AnySigIndexChanged == MakeAny("sig_index_changed")
AnyUpdateRegions == MakeAny("update_regions")
AnyUpdateScatter == MakeAny("update_scatter")
AnyUpdateVline == MakeAny("update_vline")
AnyUpdateHline == MakeAny("update_hline")
AnySetSaggitalData == MakeAny("set_saggital_data")
AnySetCoronalData == MakeAny("set_coronal_data")
AnySetTransverseData == MakeAny("set_transverse_data")

NextAnyOrder ==
    \/ DragRecorded
    \/ AnyPositionChanged \/ AnySigPositionChanged \/ AnyUpdateIndex \/ AnyTimeChanged
    \/ AnySigIndexChanged \/ AnyUpdateRegions \/ AnyUpdateScatter \/ AnyUpdateVline
    \/ AnyUpdateHline \/ AnySetSaggitalData \/ AnySetCoronalData \/ AnySetTransverseData
    \/ Return

SpecAnyOrder == InitAnyOrder /\ [][NextAnyOrder]_vars

\* --------------------------------------- the plane setters called directly
\* The indices a plane setter is called with.
PlaneIndices == 0 .. MaxExtent

\* The log of this specification holds the last two calls.
Called(c) == (IF log = <<>> THEN <<>> ELSE << log[Len(log)] >>) \o << Logged(c, FALSE) >>

\* Both 3D views are given a marker of the same shape: the window of main.py
\* by Window.set_marker, the view of views.py by marker_image_updated.
MarkerImageUpdated ==
    \E shape \in MarkerShapes :
        /\ win' = Run(win, << <<Call("set_marker", "win", "", shape)>> >>)
        /\ vol' = views_marker_image_updated(vol, shape)
        /\ log' = Called(Call("marker_image_updated", "vol", "", shape))
        /\ UNCHANGED <<stack, events, lastEmitted, expected, disk, sec>>

\* A plane setter of each of the two classes is called with the same index.
SetPlane(op, o, r) ==
    /\ vol' = o
    /\ win' = r.s
    /\ log' = Called(op)
    /\ UNCHANGED <<stack, events, lastEmitted, expected, disk, sec>>

SetSaggitalPosition ==
    \E idx \in PlaneIndices :
        SetPlane(Call("set_saggital_position", "sag", "", idx),
                 set_saggital_position(vol, idx), set_saggital_data(win, idx))

SetCoronalPosition ==
    \E idx \in PlaneIndices :
        SetPlane(Call("set_coronal_position", "cor", "", idx),
                 set_coronal_position(vol, idx), set_coronal_data(win, idx))

SetTransversePosition ==
    \E idx \in PlaneIndices :
        SetPlane(Call("set_transverse_position", "tra", "", idx),
                 set_transverse_position(vol, idx), set_transverse_data(win, idx))

NextViews ==
    MarkerImageUpdated \/ SetSaggitalPosition \/ SetCoronalPosition \/ SetTransversePosition

SpecViews == Init /\ [][NextViews]_vars

\* ------------------------------------------ regions selected and removed
\* The toggles of region items a run goes through at most.
MaxToggles == MaxEvents + 2

\* What load_region can do for a name: it raises (nothing to read or to
\* download), or it returns the volume with its mesh, the volume without a
\* mesh, or a volume that is smaller than the marker along every axis.
LoadOutcomes(shape) ==
    { [ok |-> FALSE, shape |-> shape, mesh |-> FALSE, x |-> 0],
      LoadedRegion(shape),
      [ok |-> TRUE, shape |-> shape, mesh |-> FALSE, x |-> 0],
      [ok |-> TRUE, shape |-> <<shape[1] - 1, shape[2] - 1, shape[3] - 1>>,
       mesh |-> TRUE, x |-> 0] }

\* The user clicks the show/hide button of a region item in the tree, as one
\* of the first `limit` events.
Toggled(limit) ==
    \E name \in RegionNames :
        \E load \in LoadOutcomes(win.marker_image) :
            LET r == toggle_item(win, name, load)
            IN  /\ Idle
                /\ events < limit
                /\ win' = r.s
                /\ stack' = Frames(r.emit)
                /\ log' = << Logged(Call("toggle_item", "win", name, 0), FALSE) >>
                /\ events' = events + 1
                /\ UNCHANGED <<lastEmitted, expected, vol, disk, sec>>

ToggleItem == Toggled(MaxToggles)

UpdateRegionColor == Make("update_region_color")
AddRegion == Make("add_region")
RemoveRegion == Make("remove_region")
VolumeUpdateRegions == Make("volume_update_regions")

NextRegions ==
    \/ ToggleItem \/ TimelineDrag
    \/ UpdateRegionColor \/ AddRegion \/ RemoveRegion \/ VolumeUpdateRegions
    \/ TimeChanged \/ SigIndexChanged \/ UpdateRegions \/ UpdateScatter
    \/ UpdateVline \/ UpdateHline
    \/ SetSaggitalData \/ SetCoronalData \/ SetTransverseData
    \/ Return

SpecRegions == Init /\ [][NextRegions]_vars

\* ------------------------------------------------------ point files dropped
\* The files dropped and regions toggled in a run, at most.
MaxDrops == MaxEvents + 1

\* An array with rows that hold a non-finite coordinate.
NaNPoints ==
    << <<Coord(1), Coord(1), Coord(2)>>, <<NaN, Coord(1), Coord(1)>>,
       <<Coord(0), Coord(2), NaN>>, <<2, 6, 10>> >>

\* What reading a dropped file does in roi_path_added: pandas finds no
\* x/y/z key in an h5 file and KeyError is raised; the extension is csv or
\* json, for which there is no reader, and data is None; or an array is read.
ReadOutcomes ==
    { [ok |-> FALSE, loaded |-> FALSE, data |-> <<>>],
      [ok |-> TRUE, loaded |-> FALSE, data |-> <<>>],
      [ok |-> TRUE, loaded |-> TRUE, data |-> SamplePoints.data],
      [ok |-> TRUE, loaded |-> TRUE, data |-> NaNPoints] }

\* The window with or without points given to run; the platform makes a
\* non-finite coordinate an index or not.
InitPoints ==
    /\ \E points \in {NoPoints, SamplePoints}, b \in BOOLEAN :
          win = [Started(RisingShape, points) EXCEPT !.nan_casts_to_zero = b]
    /\ stack = <<>>
    /\ log = <<>>
    /\ events = 0
    /\ lastEmitted = [v \in Views |-> win.views[v].last_idx]
    /\ expected = <<>>
    /\ vol = ViewsConstructed
    /\ disk = StartedDisk
    /\ sec = SectionConstructed("sag", NoMarker)

\* The user drops a file on the ROI list (RoiListWidget.dropEvent): its path
\* is emitted with sig_path_added.  The log keeps what the read will give
\* and the point array as it is stored before.
DropFile ==
    \E read \in ReadOutcomes :
        /\ Idle
        /\ events < MaxDrops
        /\ stack' = << << Call("roi_path_added", "win", "", read) >> >>
        /\ log' = << Logged(Call("drop", "win", "", [read |-> read, before |-> win.points]),
                            FALSE) >>
        /\ events' = events + 1
        /\ UNCHANGED <<win, lastEmitted, expected, vol, disk, sec>>

RoiPathAdded == Make("roi_path_added")
VolumeUpdateScatter == Make("volume_update_scatter")
ToggleItemEarly == Toggled(MaxDrops)

NextPoints ==
    \/ DropFile \/ ToggleItemEarly \/ TimelineDrag
    \/ RoiPathAdded \/ VolumeUpdateScatter
    \/ UpdateRegionColor \/ AddRegion \/ RemoveRegion \/ VolumeUpdateRegions
    \/ TimeChanged \/ SigIndexChanged \/ UpdateRegions \/ UpdateScatter
    \/ UpdateVline \/ UpdateHline
    \/ SetSaggitalData \/ SetCoronalData \/ SetTransverseData
    \/ Return

SpecPoints == InitPoints /\ [][NextPoints]_vars

\* --------------------------------------------- region slices computed
\* The voxels of a volume of the given shape.
Voxels(shape) == (0..(shape[1] - 1)) \X (0..(shape[2] - 1)) \X (0..(shape[3] - 1))

\* A view computes the slice, at its current index, of a region volume of
\* the marker's shape in which one voxel is raised (the call update_regions
\* makes for a stored region).  The log keeps the voxel, the slice, and the
\* frame the view displays of a marker with the same voxel raised.
GetRegionSlice ==
    \E v \in Views :
        \E voxel \in Voxels(win.marker_image) :
            LET region == RegionVolume(win.marker_image, {voxel})
                idx == win.views[v].currentIndex
            IN  /\ Idle
                /\ log' = << Logged(Call("get_region_slice", v, "",
                                         [voxel |-> voxel, idx |-> idx,
                                          slice |-> get_region_slice(v, region, idx),
                                          shown |-> MarkerFrame(v, region, idx)]),
                                    FALSE) >>
                /\ UNCHANGED <<win, stack, events, lastEmitted, expected, vol, disk, sec>>

NextSlices ==
    \/ GetRegionSlice \/ TimelineDrag
    \/ TimeChanged \/ SigIndexChanged \/ UpdateRegions \/ UpdateScatter
    \/ UpdateVline \/ UpdateHline
    \/ SetSaggitalData \/ SetCoronalData \/ SetTransverseData
    \/ Return

SpecSlices == Init /\ [][NextSlices]_vars

\* ------------------------------------------------- the marker being set
\* The events of a run that begins before the marker is set, at most.
MaxStartEvents == MaxEvents + 1

MarkerSet == win.marker_image # NoMarker

\* The views as their constructors leave them: no marker is set yet, as in
\* Window.__init__ before set_marker, and as config.py leaves marker_image
\* for the views of views.py.
InitMarker ==
    /\ \E points \in {NoPoints, SamplePoints} : win = Constructed(points)
    /\ stack = <<>>
    /\ log = <<>>
    /\ events = 0
    /\ lastEmitted = [v \in Views |-> win.views[v].last_idx]
    /\ expected = <<>>
    /\ vol = ViewsConstructed
    /\ disk = StartedDisk
    /\ sec = SectionConstructed("sag", NoMarker)

\* The slots of the views that update lines, scatter and planes.
ViewSlots ==
    {Call(op, v, "", i) : op \in {"update_vline", "update_hline"}, v \in Views, i \in 0..1}
    \cup {Call("update_scatter", v, "", 0) : v \in Views}
    \cup {Call("volume_update_scatter", "vol", "", 0)}
    \cup {Call(op, "vol", "", i) :
             op \in {"set_saggital_data", "set_coronal_data", "set_transverse_data"},
             i \in 0..1}

\* A slot of a view is called while no marker is set.
SlotCalled ==
    \E c \in ViewSlots :
        /\ Idle
        /\ ~MarkerSet
        /\ events < MaxStartEvents
        /\ stack' = << <<c>> >>
        /\ log' = << Logged(Call("slot_called", c.view, c.op, c.arg), FALSE) >>
        /\ events' = events + 1
        /\ UNCHANGED <<win, lastEmitted, expected, vol, disk, sec>>

\* Window.set_marker is called: by Window.__init__ first, and again for
\* another marker line.
SetMarker ==
    \E shape \in MarkerShapes :
        /\ Idle
        /\ events < MaxStartEvents
        /\ stack' = << << Call("set_marker", "win", "", shape) >> >>
        /\ log' = << Logged(Call("marker_chosen", "win", "", shape), FALSE) >>
        /\ events' = events + 1
        /\ UNCHANGED <<win, lastEmitted, expected, vol, disk, sec>>

\* A marker volume that is one slice thick along its third axis.
SingleSliceShape == <<MaxExtent - 2, MaxExtent - 1, 1>>

\* Window.set_marker is called for a marker line whose file holds a volume
\* of a single coronal slice.
SetSingleSliceMarker ==
    /\ Idle
    /\ events < MaxStartEvents
    /\ stack' = << << Call("set_marker", "win", "", SingleSliceShape) >> >>
    /\ log' = << Logged(Call("marker_chosen", "win", "", SingleSliceShape), FALSE) >>
    /\ events' = events + 1
    /\ UNCHANGED <<win, lastEmitted, expected, vol, disk, sec>>

TimelineDragged == MarkerSet /\ TimelineDrag

SetMarkerCalled == Make("set_marker")
UpdateMarkerImage == Make("update_marker_image")
UpdateMarkerImageSetPos == Make("update_marker_image_setPos")
VolumeMarkerImageUpdated == Make("marker_image_updated")

NextMarker ==
    \/ SlotCalled \/ SetMarker \/ SetSingleSliceMarker \/ TimelineDragged
    \/ SetMarkerCalled \/ UpdateMarkerImage \/ UpdateMarkerImageSetPos
    \/ VolumeMarkerImageUpdated \/ VolumeUpdateScatter
    \/ TimeChanged \/ SigIndexChanged \/ UpdateRegions \/ UpdateScatter
    \/ UpdateVline \/ UpdateHline
    \/ SetSaggitalData \/ SetCoronalData \/ SetTransverseData
    \/ Return

SpecMarker == InitMarker /\ [][NextMarker]_vars

\* ------------------------------------------------ the stores being changed
\* The window of a session: started, without points given to run.
InitSession ==
    /\ win = Started(RisingShape, NoPoints)
    /\ stack = <<>>
    /\ log = <<>>
    /\ events = 0
    /\ lastEmitted = [v \in Views |-> win.views[v].last_idx]
    /\ expected = <<>>
    /\ vol = ViewsConstructed
    /\ disk = StartedDisk
    /\ sec = SectionConstructed("sag", NoMarker)

\* The events that change a store: another marker is set, a region item is
\* toggled, a file is dropped.
MarkerChanged == events < MaxEvents /\ SetMarker
FileDropped == events < MaxEvents /\ DropFile
ItemToggled == Toggled(MaxEvents)

NextSession ==
    \/ MarkerChanged \/ FileDropped \/ ItemToggled
    \/ SetMarkerCalled \/ UpdateMarkerImage \/ UpdateMarkerImageSetPos
    \/ VolumeMarkerImageUpdated
    \/ RoiPathAdded \/ VolumeUpdateScatter
    \/ UpdateRegionColor \/ AddRegion \/ RemoveRegion \/ VolumeUpdateRegions
    \/ TimeChanged \/ SigIndexChanged \/ UpdateRegions \/ UpdateScatter
    \/ UpdateVline \/ UpdateHline
    \/ SetSaggitalData \/ SetCoronalData \/ SetTransverseData
    \/ Return

SpecSession == InitSession /\ [][NextSession]_vars

\* ------------------------------------------------- loads and downloads
\* The loads of a run, at most.
MaxLoads == MaxEvents + 1

\* The window started, with nothing in the region folder, or with the
\* volume of a region there, or with its volume and mesh.
InitCache ==
    /\ win = Started(RisingShape, NoPoints)
    /\ stack = <<>>
    /\ log = <<>>
    /\ events = 0
    /\ lastEmitted = [v \in Views |-> win.views[v].last_idx]
    /\ expected = <<>>
    /\ vol = ViewsConstructed
    /\ sec = SectionConstructed("sag", NoMarker)
    /\ disk \in { StartedDisk, StartedDisk \cup {RegionFile("r1", "tif")},
                  StartedDisk \cup {RegionFile("r1", "tif"), RegionFile("r1", "stl")} }

\* A call of load_region or load_marker.  The log of this specification
\* keeps every load with what came of it.
LoadCalled(op, name, r) ==
    /\ events < MaxLoads
    /\ disk' = r.disk
    /\ log' = Append(log, Logged(Call(op, "win", name,
                                      [fetched |-> r.fetched, mesh |-> r.mesh]), ~r.ok))
    /\ events' = events + 1
    /\ UNCHANGED <<win, stack, lastEmitted, expected, vol, sec>>

LoadRegion ==
    \E name \in RegionNames, net \in NetOutcomes :
        LoadCalled("load_region", name, load_region(disk, name, net))

LoadMarker ==
    \E name \in MarkerNames, net \in NetOutcomes :
        LoadCalled("load_marker", name, load_marker(disk, name, net))

NextCache == LoadRegion \/ LoadMarker

SpecCache == InitCache /\ [][NextCache]_vars

\* ------------------------------------- views.py: ROI sets in a section view
\* The calls made on the section view in a run, at most.
MaxScatterCalls == MaxEvents + 2

\* The tree items of ROI sets.
RoiTreeItems == [name : RoiSetNames, color : RoiColors, coordinates : RoiCoordinates]

\* A section view of views.py as constructed, config.marker_image being None
\* as config.py leaves it or a marker volume assigned by the user of the module.
InitScatter ==
    /\ win = Started(RisingShape, NoPoints)
    /\ stack = <<>>
    /\ log = <<>>
    /\ events = 0
    /\ lastEmitted = [v \in Views |-> win.views[v].last_idx]
    /\ expected = <<>>
    /\ vol = ViewsConstructed
    /\ disk = StartedDisk
    /\ \E kind \in Views, marker \in {NoMarker, RisingShape} :
          sec = SectionConstructed(kind, marker)

\* A method of the section view is called.  The log of this specification
\* holds the last call.
SectionCalled(op, tree_item, r) ==
    /\ events < MaxScatterCalls
    /\ sec' = r.s
    /\ log' = << Logged(Call(op, sec.kind, tree_item.name, tree_item), r.exc) >>
    /\ events' = events + 1
    /\ UNCHANGED <<win, stack, lastEmitted, expected, vol, disk>>

AddScatter ==
    \E item \in RoiTreeItems : SectionCalled("add_scatter", item, add_scatter(sec, item))

UpdateScatterColor ==
    \E item \in RoiTreeItems :
        SectionCalled("update_scatter_color", item, update_scatter_color(sec, item))

RemoveScatter ==
    \E item \in RoiTreeItems : SectionCalled("remove_scatter", item, remove_scatter(sec, item))

\* update_scatter is called, as by the view's sig_index_changed.
UpdateScatterCalled ==
    \E item \in RoiTreeItems :
        SectionCalled("views_update_scatter", item, views_update_scatter(sec))

NextScatter == AddScatter \/ UpdateScatterColor \/ RemoveScatter \/ UpdateScatterCalled

SpecScatter == InitScatter /\ [][NextScatter]_vars

\* ------------------------------- views.py: ROI sets in all of the views
\* The changes of the ROI sets and of the slice indices in a run, at most.
MaxRoiSetEvents == MaxEvents + 2

\* A session with a marker: the window of main.py, and a section view and
\* the 3D view of views.py that stand where the window's views stand.
InitRoiSets ==
    /\ win = Started(RisingShape, NoPoints)
    /\ stack = <<>>
    /\ log = <<>>
    /\ events = 0
    /\ lastEmitted = [v \in Views |-> win.views[v].last_idx]
    /\ expected = <<>>
    /\ vol = views_marker_image_updated(ViewsConstructed, RisingShape)
    /\ disk = StartedDisk
    /\ \E kind \in Views :
          sec = [SectionConstructed(kind, RisingShape) EXCEPT
                    !.currentIndex = win.views[kind].currentIndex]

\* A change of the ROI sets or of an index.  The log of this specification
\* holds the last change.
RoiSetsChanged(c, exc) ==
    /\ events < MaxRoiSetEvents
    /\ log' = << Logged(c, exc) >>
    /\ events' = events + 1
    /\ UNCHANGED <<stack, lastEmitted, expected, disk>>

\* The tree items of the ROI sets added: in the colour a new set is given.
\* (SpecScatter has the colours changed.)
AddedTreeItems == {item \in RoiTreeItems : item.color = "white"}

\* A ROI set is added to config.roi_set_items under a name that is not in
\* it: the section view adds its scatter and the 3D view updates its own.
RoiSetAdded ==
    \E item \in AddedTreeItems :
        LET a == add_scatter(sec, item)
            u == views_volume_update_scatter(
                     [vol EXCEPT !.roi_set_items = (item.name :> item) @@ vol.roi_set_items])
        IN  /\ item.name \notin DOMAIN vol.roi_set_items
            /\ sec' = a.s
            /\ vol' = u.s
            /\ UNCHANGED win
            /\ RoiSetsChanged(Call("roi_set_added", sec.kind, item.name, item), a.exc \/ u.exc)

\* A ROI set is removed from config.roi_set_items: the section view removes
\* its scatter and the 3D view updates its own.
RoiSetRemoved ==
    \E name \in DOMAIN vol.roi_set_items :
        LET item == vol.roi_set_items[name]
            r == remove_scatter(sec, item)
            u == views_volume_update_scatter(
                     [vol EXCEPT !.roi_set_items = Without(vol.roi_set_items, name)])
        IN  /\ sec' = r.s
            /\ vol' = u.s
            /\ UNCHANGED win
            /\ RoiSetsChanged(Call("roi_set_removed", sec.kind, name, item), r.exc \/ u.exc)

\* The plane setter of views.py that is connected to the index of view v.
set_position(o, v, idx) ==
    CASE v = "sag" -> set_saggital_position(o, idx)
      [] v = "cor" -> set_coronal_position(o, idx)
      [] v = "tra" -> set_transverse_position(o, idx)

\* The timeline of a view is dragged to another slice: the window's views
\* follow by the slots of sig_index_changed, the section view of that kind
\* updates its scatter and the 3D view moves the plane of the view.
SliceIndexChanged ==
    \E v \in Views :
        \E idx \in 0..(Shape(win, ImageAxes(v).t) - 1) :
            LET r == TimeLineSetPos(win, v, Pos(idx))
                u == views_update_scatter([sec EXCEPT !.currentIndex = idx])
            IN  /\ idx # win.views[v].currentIndex
                /\ win' = Run(r.s, Frames(r.emit))
                /\ sec' = IF v = sec.kind THEN u.s ELSE sec
                /\ vol' = set_position(vol, v, idx)
                /\ RoiSetsChanged(Call("slice_index_changed", v, "", idx),
                                  v = sec.kind /\ u.exc)

NextRoiSets == RoiSetAdded \/ RoiSetRemoved \/ SliceIndexChanged

SpecRoiSets == InitRoiSets /\ [][NextRoiSets]_vars

\* ------------------------------------------------------- reading the log
Count(op) == Cardinality({i \in DOMAIN log : log[i].op = op})

\* The event being handled is the drag of a line.
Dragging == log # <<>> /\ log[1].op = "drag"

\* The handling of the event has completed.
Handled == stack = <<>> /\ log # <<>>

DraggedAxis == LineAxis(log[1].view, log[1].name)

\* The lines, in the views other than that of axis a, that move along a.
LinesOfAxis(a) ==
    {l \in Views \X Lines : l[1] # ViewOfAxis(a) /\ LineAxis(l[1], l[2]) = a}

Extent(a) == Shape(win, a)

\* The logical index along axis a is the same everywhere it is kept.
AxisAgrees(a) ==
    LET i == win.views[ViewOfAxis(a)].currentIndex
    IN  /\ \A l \in LinesOfAxis(a) : LineIndex(win, l[1], l[2]) = i
        /\ PlaneIndex(win, ViewOfAxis(a)) = i

\* C1: when the handling of the drag of a line has completed, the slice view
\* of the axis the line tracks, the lines of the other views that track that
\* axis and the plane of that axis stand for the same index.
C1_FanOutConsistent == (Dragging /\ Handled) => AxisAgrees(DraggedAxis)

\* C5: every part of the logical cursor lies in [0, extent-1] of its axis:
\* the index a dragged line emits, each view's slice index, each plane index.
C5_CursorInRange ==
    /\ \A i \in DOMAIN log :
          log[i].op = "sig_position_changed" =>
              log[i].arg \in 0..(Extent(LineAxis(log[i].view, log[i].name)) - 1)
    /\ \A v \in Views :
          /\ win.views[v].currentIndex \in 0..(Extent(ImageAxes(v).t) - 1)
          /\ PlaneIndex(win, v) \in 0..(Extent(ImageAxes(v).t) - 1)

\* C2: a programmatic reposition of a line emits nothing, so the handling of
\* one drag makes at most one update_index call and one sig_index_changed
\* emission: the only position_changed is that of the dragged line, and no
\* call follows a reposition as its consequence.
C2_DragFanOutBounded ==
    Dragging =>
        /\ Count("position_changed") <= 1
        /\ Count("sig_position_changed") <= 1
        /\ Count("update_index") <= 1
        /\ Count("sig_index_changed") <= 1
        /\ \A i \in DOMAIN log :
              log[i].op = "position_changed" =>
                  log[i].view = log[1].view /\ log[i].name = log[1].name
        /\ Len(log) <= 11

\* A drag whose handling repositioned lines in two other views.
C2_Witness ==
    /\ Dragging /\ Handled
    /\ Count("update_index") = 1
    /\ Count("sig_index_changed") = 1
    /\ Count("update_vline") + Count("update_hline") = 2

\* The sig_index_changed emissions that are about to be made.
PendingEmissions ==
    {c \in UNION {{stack[f][k] : k \in DOMAIN stack[f]} : f \in DOMAIN stack} :
        c.op = "sig_index_changed"}

\* C3: a view emits sig_index_changed only with an index that differs from
\* the one it emitted last, and a timeline event that leaves the index where
\* it was emits nothing; no event leads to two emissions of one view.
C3_DuplicateSuppressed ==
    /\ \A c \in PendingEmissions : c.arg # lastEmitted[c.view]
    /\ \A v \in Views :
          Cardinality({i \in DOMAIN log :
              log[i].op = "sig_index_changed" /\ log[i].view = v}) <= 1
    /\ (Handled /\ log[Len(log)].op = "time_changed") =>
          win.views[log[Len(log)].view].currentIndex = lastEmitted[log[Len(log)].view]

\* A second timeline event with the index of the first: handled by
\* time_changed alone.
C3_Witness ==
    /\ Handled
    /\ events = 2
    /\ log[1].op = "timeline_drag"
    /\ Len(log) = 2
    /\ log[2].op = "time_changed"

\* C4: a line placed by update_vline(i) / update_hline(i) is converted back
\* to i by the conversion of the drag, for every view and every index i of
\* the line's axis; so is the line the fan-out has just placed.
C4_RoundTrip ==
    /\ \A v \in Views :
        /\ \A i \in 0..(Extent(LineAxis(v, "vline")) - 1) :
              LineIndex(update_vline(win, v, i).s, v, "vline") = i
        /\ \A i \in 0..(Extent(LineAxis(v, "hline")) - 1) :
              LineIndex(update_hline(win, v, i).s, v, "hline") = i
    /\ (log # <<>> /\ log[Len(log)].op \in {"update_vline", "update_hline"}) =>
          LineIndex(win, log[Len(log)].view,
                    IF log[Len(log)].op = "update_vline" THEN "vline" ELSE "hline")
              = log[Len(log)].arg

\* A horizontal line has just been placed by the fan-out of a drag.
C4_Witness ==
    /\ Dragging
    /\ log[Len(log)].op = "update_hline"
    /\ win.views[log[Len(log)].view].hline
           = Pos(ymax(win, log[Len(log)].view) - log[Len(log)].arg)

\* What a drag along axis a has to leave alone: the slice index of the views
\* of the other axes, the lines and the planes of the other axes.
OtherAxesUnchanged(a) ==
    \A v \in Views :
        /\ ImageAxes(v).t # a =>
              /\ win'.views[v].currentIndex = win.views[v].currentIndex
              /\ win'.volume_view.planes[v] = win.volume_view.planes[v]
        /\ \A which \in Lines :
              LineAxis(v, which) # a => win'.views[v][which] = win.views[v][which]

\* C6, the effect: the one update_index call of a drag goes to the view whose
\* slice axis the line tracks, which then shows the emitted index, bounded to
\* its frames.
C6_TargetIndexSet ==
    Dragging =>
        \A i \in DOMAIN log :
            log[i].op = "update_index" =>
                /\ log[i].view = ViewOfAxis(DraggedAxis)
                /\ i = Len(log) =>
                      win.views[log[i].view].currentIndex
                          = TimeIndex(Extent(DraggedAxis), Pos(log[i].arg))

\* C6: the drag of a line that tracks an axis sets the slice index of the
\* view of that axis and of no other view, and leaves the lines and planes
\* of the other two axes as they were.
C6_DragFrame ==
    /\ [][(log' # <<>> /\ log'[1].op = "drag")
            => OtherAxesUnchanged(LineAxis(log'[1].view, log'[1].name))]_vars
    /\ []C6_TargetIndexSet

\* A drag that changed the slice index of the view of its axis.
C6_Witness ==
    /\ Dragging /\ Handled
    /\ Count("sig_index_changed") = 1
    /\ win.views[ViewOfAxis(DraggedAxis)].currentIndex
           = win.views[ViewOfAxis(DraggedAxis)].last_idx

\* Where a slot of sig_index_changed stands in the order of the fan-out.
Rank(op) ==
    CASE op \in {"update_regions"} -> 1
      [] op \in {"update_scatter"} -> 2
      [] op \in {"update_vline", "update_hline"} -> 3
      [] op \in {"set_saggital_data", "set_coronal_data", "set_transverse_data"} -> 4
      [] OTHER -> 0

Overlay(op) == op \in {"update_regions", "update_scatter"}
Reposition(op) == op \in {"update_vline", "update_hline"}

\* C8 as stated: in the fan-out of an index change the overlays are
\* recomputed only after the lines that track the axis were repositioned.
C8_OverlaysAfterLines ==
    \A i \in DOMAIN log :
        Overlay(log[i].op) => \E j \in 1..(i - 1) : Reposition(log[j].op)

\* C8, amended: in the fan-out of an index change the view's slice index is
\* set first, then the view's region and scatter overlays are recomputed,
\* then the lines of the other views are repositioned, then the plane of the
\* 3D view is set.
C8_FanOutOrder ==
    \A i \in DOMAIN log :
        log[i].op = "sig_index_changed" =>
            /\ win.views[log[i].view].currentIndex = log[i].arg
            /\ log[i - 1].op = "time_changed"
            /\ \A j \in (i + 1)..Len(log) :
                  /\ Rank(log[j].op) > 0
                  /\ j > i + 1 => Rank(log[j - 1].op) <= Rank(log[j].op)
                  /\ Reposition(log[j].op) =>
                        \E k \in (i + 1)..(j - 1) : Overlay(log[k].op)
            /\ Handled => Len(log) = i + 5

\* The fan-out of an index change caused by a drag has completed.
C8_Witness ==
    /\ Dragging /\ Handled
    /\ Count("sig_index_changed") = 1
    /\ Count("update_regions") = 1
    /\ Count("update_scatter") = 1

\* C7: the state a drag leads to (slice indices, lines, planes, overlays) is
\* the same for every order in which the slots of the emitted signals are
\* called as for the order of their connection.
C7_OrderIndependent == (Dragging /\ Handled) => win = expected

\* A drag that changed a slice index has been handled with slots called in
\* another order than that of their connection.
C7_Witness ==
    /\ Dragging /\ Handled
    /\ Len(log) = 2
    /\ log[2].op = "reordered"
    /\ LET v == ViewOfAxis(DraggedAxis)
       IN  /\ lastEmitted[v] = win.views[v].currentIndex
           /\ win.views[v].region_image_items["r1"].image = win.views[v].currentIndex
           /\ win.views[v].currentIndex # (Extent(DraggedAxis) \div 2)

\* The plane item of views.py that stands for a view's slice.
PlaneItem(v) ==
    CASE v = "sag" -> "saggital_plane" [] v = "cor" -> "coronal_plane"
      [] v = "tra" -> "transverse_plane"

\* Where a plane belongs for an index: the sagittal plane is counted from the
\* far end of its axis, along x; the coronal plane lies along z, the
\* transverse plane along y.
PlaceOf(bounds, v, idx) ==
    CASE v = "sag" -> <<bounds[1] - idx, 0, 0>>
      [] v = "cor" -> <<0, 0, idx>>
      [] v = "tra" -> <<0, idx, 0>>

PlaneSetters ==
    {"set_saggital_position", "set_coronal_position", "set_transverse_position"}

\* C9: a call of a plane setter of the 3D view, in views.py and in main.py
\* alike, leaves everything but its own plane as it was, and puts its plane
\* where the index given belongs, wherever the plane was before; without
\* volume bounds it does nothing.
C9_PlaneSetterFrame ==
    [][ (log' # <<>> /\ log'[Len(log')].op \in PlaneSetters) =>
            LET c == log'[Len(log')]
                v == c.view
            IN  /\ vol' = IF vol.volume_bounds = NoMarker THEN vol
                          ELSE [vol EXCEPT ![PlaneItem(v)] =
                                               PlaceOf(vol.volume_bounds, v, c.arg)]
                /\ win' = IF win.volume_view.volume_bounds = NoMarker THEN win
                          ELSE [win EXCEPT !.volume_view.planes[v] =
                                    PlaceOf(win.volume_view.volume_bounds, v, c.arg)[
                                        CASE v = "sag" -> 1 [] v = "cor" -> 3 [] v = "tra" -> 2]]
      ]_vars

\* The coronal plane has been set twice in a row, to two indices, after the
\* other two planes were moved from where the marker had put them.
C9_Witness ==
    /\ Len(log) = 2
    /\ log[1].op = "set_coronal_position" /\ log[2].op = "set_coronal_position"
    /\ log[1].arg > 0 /\ log[2].arg > log[1].arg
    /\ vol.volume_bounds # NoMarker
    /\ vol.coronal_plane = <<0, 0, log[2].arg>>
    /\ win.volume_view.planes.cor = log[2].arg
    /\ vol.saggital_plane # PlaceOf(vol.volume_bounds, "sag", vol.volume_bounds[1] \div 2)
    /\ vol.transverse_plane # PlaceOf(vol.volume_bounds, "tra", vol.volume_bounds[2] \div 2)

\* The drawables kept for region names: per section view and in the 3D view.
Caches == [v \in Views |-> win.views[v].region_image_items]
              @@ ("vol" :> win.volume_view.mesh_items)

\* C10: in every view the drawable of a region name is made at most once,
\* and a name that has a drawable keeps that drawable, through every
\* selection, removal, colour change and index change.
C10_DrawableStable ==
    /\ [](\A k \in DOMAIN Caches : \A n \in RegionNames : Caches[k][n].created <= 1)
    /\ [][\A k \in DOMAIN Caches : \A n \in RegionNames :
              Caches[k][n].created # 0 => Caches'[k][n].created = Caches[k][n].created]_vars

\* A region was selected, removed and selected again, with the slice index
\* of the sagittal view changed in between: its drawables are those made at
\* the first selection, the image item showing the slice of the index now.
C10_Witness ==
    /\ Handled
    /\ events = MaxToggles
    /\ log[1].op = "toggle_item" /\ log[1].name = "r1"
    /\ RegionIndex(win.regions, "r1") # 0
    /\ \A k \in DOMAIN Caches : Caches[k]["r1"].created = 1 /\ Caches[k]["r1"].visible
    /\ win.views["sag"].currentIndex # Shape(win, 0) \div 2
    /\ win.views["sag"].region_image_items["r1"].image = win.views["sag"].currentIndex
    /\ RegionIndex(win.regions, "r2") = 0
    /\ win.views["sag"].region_image_items["r2"].created = 0

\* The names in the region store.
Stored == {win.regions[i].name : i \in DOMAIN win.regions}

\* C11: when the update_regions calls that follow a change of the region
\* store have been made, a drawable a view keeps for a region name is
\* visible if and only if the name is in the region store.
C11_VisibleIffStored ==
    (stack = <<>>) =>
        \A k \in DOMAIN Caches : \A n \in RegionNames :
            Caches[k][n].created # 0 => (Caches[k][n].visible <=> n \in Stored)

\* C12: when the deselection of a region has been handled, its name is not
\* in the region store and no view keeps a drawable for it.
C12_RemovedDropped ==
    (Handled /\ log[1].op = "toggle_item" /\ Count("remove_region") = 1) =>
        /\ log[1].name \notin Stored
        /\ \A k \in DOMAIN Caches : Caches[k][log[1].name].created = 0

\* C13: a region whose loaded volume has another shape than the marker
\* volume is not in the region store after add_region.
C13_MismatchRejected ==
    \A i \in DOMAIN log :
        (log[i].op = "add_region" /\ log[i].arg.ok /\ log[i].arg.shape # win.marker_image)
            => log[i].name \notin Stored

\* C14: an add_region whose load raises leaves the window as it was, the
\* region store included, and has no slot called: the exception is all that
\* comes of it.
C14_FailedLoadNoEffect ==
    [][ (Len(log') = Len(log) + 1 /\ log'[Len(log')].op = "add_region"
            /\ ~log'[Len(log')].arg.ok) =>
            /\ win' = win
            /\ stack' = Taken(stack, 1, <<>>)
            /\ log'[Len(log')].exc
      ]_vars

\* The load of r2 has just failed while r1 is in the region store and shown.
C14_Witness ==
    /\ log # <<>>
    /\ log[Len(log)].op = "add_region" /\ log[Len(log)].name = "r2"
    /\ ~log[Len(log)].arg.ok /\ log[Len(log)].exc
    /\ Stored = {"r1"}
    /\ stack = <<>>
    /\ \A v \in Views : win.views[v].region_image_items["r1"].visible
    /\ "r2" \in win.selected_items

\* The event being handled is the drop of a file, and what reading it gives.
Dropping == log # <<>> /\ log[1].op = "drop"
Read == log[1].arg.read
Usable(read) == read.ok /\ read.loaded

\* C15: a dropped file that cannot be read as points leaves the stored point
\* array as it was, and no slot of sig_roi_data_changed is called for it.
C15_UnreadableLeavesPoints ==
    (Dropping /\ ~Usable(Read)) =>
        /\ win.points = log[1].arg.before
        /\ Count("update_scatter") = 0
        /\ Count("volume_update_scatter") = 0

RECURSIVE FiniteRows(_)
\* The rows without a non-finite coordinate, in their order.
FiniteRows(rows) ==
    IF rows = <<>> THEN <<>>
    ELSE (IF \E j \in 1..3 : Head(rows)[j] = NaN THEN <<>> ELSE <<Head(rows)>>)
         \o FiniteRows(Tail(rows))

\* C16: when roi_path_added has stored the array read from a file, the
\* stored rows are the rows of the file whose coordinates are all finite.
C16_NonFiniteDropped ==
    (Dropping /\ Usable(Read) /\ Len(log) = 2) =>
        win.points = [set |-> TRUE, data |-> FiniteRows(Read.data)]

\* Whether coordinate c rounds to the integer i, a coordinate half way
\* between two integers going up, down or to the even one as the rule says.
RoundsTo(c, i, rule) ==
    /\ c # NaN
    /\ c - Coord(i) \in
          CASE rule = "up" -> -2..1
            [] rule = "down" -> -1..2
            [] rule = "even" -> IF i % 2 = 0 THEN -2..2 ELSE -1..1

RECURSIVE RowsRounding(_, _, _, _)
\* The rows whose coordinate in column col rounds to i.
RowsRounding(rows, col, i, rule) ==
    IF rows = <<>> THEN <<>>
    ELSE (IF RoundsTo(Head(rows)[col + 1], i, rule) THEN <<Head(rows)>> ELSE <<>>)
         \o RowsRounding(Tail(rows), col, i, rule)

\* C17: a slice view's update_scatter, with points stored, raises nothing and
\* shows exactly the projection of the stored points whose coordinate along
\* the slice axis rounds to the view's slice index.
C17_ProjectsRounded ==
    (log # <<>> /\ log[Len(log)].op = "update_scatter" /\ win.points.set) =>
        LET v == log[Len(log)].view
        IN  /\ ~log[Len(log)].exc
            /\ \E rule \in {"up", "down", "even"} :
                  win.views[v].sct.data =
                      Projected(win, v, RowsRounding(win.points.data, ImageAxes(v).t,
                                                     win.views[v].currentIndex, rule))

\* C18: get_coordinate_slice leaves the stored point array as it is, in
\* every view and every state with points, so that the slice computed again
\* is the same.
C18_SliceLeavesPoints ==
    (win.points.set /\ win.marker_image # NoMarker) =>
        \A v \in Views :
            LET once == update_scatter(win, v).s
                twice == update_scatter(once, v).s
            IN  /\ once.points = win.points
                /\ get_coordinate_slice(once, v) = get_coordinate_slice(win, v)
                /\ twice.views[v].sct = once.views[v].sct

\* A slice view has just shown a row of the array read from a dropped file,
\* with its vertical coordinate flipped, and the array is stored as read.
C18_Witness ==
    /\ Dropping /\ Usable(Read)
    /\ log[Len(log)].op = "update_scatter" /\ log[Len(log)].view = "tra"
    /\ win.views["tra"].sct.data # <<>>
    /\ win.views["tra"].sct.data[1][2] # win.points.data[1][3]
    /\ win.points.data = Read.data

\* The first coordinate of a mesh as load_region returns it.
RawMeshX == LoadedRegion(win.marker_image).x

\* C19: the stored points are the array read from the file, and the stored
\* meshes are as they were loaded, whatever the views have done since.
C19_StoresUntouched ==
    /\ (Dropping /\ Usable(Read) /\ Count("roi_path_added") = 1) =>
          win.points.data = Read.data
    /\ \A i \in DOMAIN win.regions :
          win.regions[i].mesh.present => win.regions[i].mesh.x = RawMeshX

RECURSIVE Mirrored(_, _)
\* The rows with the first coordinate c replaced by extent0 - c.
Mirrored(rows, extent0) ==
    IF rows = <<>> THEN <<>>
    ELSE << <<Flip(extent0, Head(rows)[1]), Head(rows)[2], Head(rows)[3]>> >>
         \o Mirrored(Tail(rows), extent0)

Pixels(m) == UNION {{<<j, k>> : k \in DOMAIN m[j]} : j \in DOMAIN m}
ShapeOf(m) == <<Cardinality(DOMAIN m), Cardinality(DOMAIN m[0])>>

\* Where the documented transform of a view kind puts the voxel a, and the
\* shape it gives the slice of a volume with extents e.
DocumentedPixel(v, e, a) ==
    CASE v = "sag" -> <<e[3] - 1 - a[3], a[2]>>
      [] v = "cor" -> <<e[1] - 1 - a[1], a[2]>>
      [] v = "tra" -> <<e[3] - 1 - a[3], a[1]>>

DocumentedShape(v, e) ==
    CASE v = "sag" -> <<e[3], e[2]>>
      [] v = "cor" -> <<e[1], e[2]>>
      [] v = "tra" -> <<e[3], e[1]>>

\* C21: the region slice a view computes at index i has the two extents
\* that are not the slice axis as its shape, and a single raised voxel shows
\* in it exactly when it lies in slice i, at the pixel of the documented
\* transform: sagittal (extent2-1-a2, a1), coronal (extent0-1-a0, a1),
\* transversal (extent2-1-a2, a0).
C21_RegionSliceTransform ==
    (log # <<>> /\ log[Len(log)].op = "get_region_slice") =>
        LET v == log[Len(log)].view
            a == log[Len(log)].arg.voxel
            i == log[Len(log)].arg.idx
            m == log[Len(log)].arg.slice
            e == win.marker_image
        IN  /\ ShapeOf(m) = DocumentedShape(v, e)
            /\ {p \in Pixels(m) : m[p[1]][p[2]] # 0}
                   = IF a[ImageAxes(v).t + 1] = i THEN {DocumentedPixel(v, e, a)} ELSE {}

\* The coronal view, moved to its last slice, has computed the slice of a
\* region whose raised voxel lies in that slice, off the middle of each axis.
C21_Witness ==
    /\ log # <<>> /\ log[Len(log)].op = "get_region_slice"
    /\ log[Len(log)].view = "cor"
    /\ log[Len(log)].arg.idx = win.marker_image[3] - 1
    /\ log[Len(log)].arg.voxel = <<0, 0, win.marker_image[3] - 1>>
    /\ log[Len(log)].arg.slice[win.marker_image[1] - 1][0] = 1
    /\ events > 0

\* C22: a call of update_vline, update_hline, update_scatter (slice view or
\* 3D view) or of a plane setter while no marker is set leaves the window
\* and its views as they are and raises nothing.
C22_NoMarkerNoOp ==
    [][ (win.marker_image = NoMarker /\ Len(log') = Len(log) + 1
            /\ \E c \in ViewSlots : c.op = log'[Len(log')].op) =>
            /\ win' = win
            /\ ~log'[Len(log')].exc
      ]_vars

\* The operations that change a store, and the slots of the notification
\* that belongs to each.
Mutators ==
    {"set_marker", "add_region", "remove_region", "update_region_color", "roi_path_added"}

Notified(op) ==
    CASE op = "set_marker" -> SigMarkerImageUpdatedSlots
      [] op = "roi_path_added" -> SigRoiDataChangedSlots
      [] OTHER -> SigRegionsUpdatedSlots

\* The marker, the regions, the colours and the point array the window holds.
Stores(s) ==
    << s.marker_image, [i \in DOMAIN s.regions |-> <<s.regions[i].name, s.regions[i].shape>>],
       s.region_colors, s.points.set >>

\* C23: a marker, a region, a colour or a point array is stored or removed
\* only by set_marker, add_region, remove_region, update_region_color and
\* roi_path_added; when one of them has returned, the slots of its
\* notification are the calls made next, all of them are made, and no other
\* event is handled before.
C23_MutationBroadcast ==
    /\ [][ /\ Stores(win') # Stores(win) =>
                 Len(log') = Len(log) + 1 /\ log'[Len(log')].op \in Mutators
           /\ (Len(log') = Len(log) + 1 /\ log'[Len(log')].op \in Mutators
                  /\ ~log'[Len(log')].exc) =>
                 /\ stack' # <<>>
                 /\ stack'[1] = Notified(log'[Len(log')].op)
           /\ events' # events => stack = <<>>
         ]_vars
    /\ [](Handled =>
            \A i \in DOMAIN log :
                (log[i].op \in Mutators /\ ~log[i].exc) =>
                    \A k \in 1..4 :
                        \E j \in (i + 1)..Len(log) :
                            /\ log[j].op = Notified(log[i].op)[k].op
                            /\ log[j].view = Notified(log[i].op)[k].view)

\* Each kind of store has been changed in the session, the colours and the
\* regions by the event just handled, and every slot of the notifications of
\* that event has been called.
C23_Witness ==
    /\ Handled
    /\ events = MaxEvents
    /\ log[1].op = "toggle_item"
    /\ Count("update_region_color") = 1 /\ Count("add_region") = 1
    /\ Count("update_regions") = 6 /\ Count("volume_update_regions") = 2
    /\ Stored # {}
    /\ win.points.set

\* The stored regions that came without a mesh, and whether every stored
\* volume has the shape of the marker.
Meshless == {i \in DOMAIN win.regions : ~win.regions[i].mesh.present}
ShapesMatch == \A i \in DOMAIN win.regions : win.regions[i].shape = win.marker_image

\* C24: with a region stored without a mesh, every update of the regions
\* runs to its end in the three slice views and in the 3D view, the overlay
\* of every stored region is shown in the slice views, and the mesh of every
\* stored region that has one is shown in the 3D view.
C24_MeshlessHarmless ==
    (Handled /\ ShapesMatch /\ Meshless # {}) =>
        /\ \A j \in DOMAIN log :
              log[j].op \in {"update_regions", "volume_update_regions"} => ~log[j].exc
        /\ \A i \in DOMAIN win.regions :
              /\ \A v \in Views : win.views[v].region_image_items[win.regions[i].name].visible
              /\ win.regions[i].mesh.present =>
                    win.volume_view.mesh_items[win.regions[i].name].visible

\* The event being handled is a call of set_marker.
SettingMarker == log # <<>> /\ log[1].op = "marker_chosen"

\* C25: when set_marker has completed, each slice view shows the middle
\* slice of the new volume (extent0 \div 2 sagittal, extent1 \div 2 transversal,
\* extent2 \div 2 coronal) and the plane of each view in the 3D view stands
\* for that same index.
C25_MarkerBringsUpToDate ==
    (SettingMarker /\ Handled) =>
        /\ win.marker_image = log[1].arg
        /\ \A v \in Views :
              /\ win.views[v].currentIndex = Extent(ImageAxes(v).t) \div 2
              /\ PlaneIndex(win, v) = win.views[v].currentIndex

\* A marker of another shape has been set as the last event of a run: a view
\* that showed another slice went to the first slice and on to the middle one.
C25_Witness ==
    /\ SettingMarker /\ Handled
    /\ events = MaxStartEvents
    /\ win.volume_view.volume_bounds = log[1].arg
    /\ log[1].arg # RisingShape
    /\ Count("sig_index_changed") >= 4
    /\ \E v \in Views : lastEmitted[v] # 0 /\ win.views[v].last_idx = Extent(ImageAxes(v).t) \div 2

\* The slice views show the projection of the stored points at their index.
SlicesShowPoints ==
    \A v \in Views :
        win.views[v].sct = [set |-> TRUE, data |-> get_coordinate_slice(win, v)]

\* C26: when Window.__init__ has set the marker, and ever after, points
\* given to run are shown in all four views: each slice view shows their
\* projection at its index, the 3D view shows all of them.
C26_GivenPointsShown ==
    (win.points.set /\ MarkerSet /\ stack = <<>>) =>
        /\ SlicesShowPoints
        /\ win.volume_view.scatter_item.set
        /\ Len(win.volume_view.scatter_item.data) = Len(win.points.data)

\* C27: when a slice view has recomputed its overlays, at any index of its
\* slice axis, the slice it took from each stored region volume lies inside
\* that volume, and the recomputation raised nothing.
C27_RegionReadsInBounds ==
    (log # <<>> /\ log[Len(log)].op = "update_regions") =>
        LET v == log[Len(log)].view
        IN  /\ win.views[v].currentIndex \in 0..(Extent(ImageAxes(v).t) - 1)
            /\ \A i \in DOMAIN win.regions : SliceInBounds(win, v, win.regions[i])
            /\ ~log[Len(log)].exc

\* C28: after a load_region or a load_marker of a name has returned, a later
\* load of the same kind and name downloads nothing, and returns.
C28_LoadFetchesOnce ==
    \A i, j \in DOMAIN log :
        (i < j /\ log[i].op \in {"load_region", "load_marker"} /\ ~log[i].exc
              /\ log[j].op = log[i].op /\ log[j].name = log[i].name) =>
            /\ log[j].arg.fetched = 0
            /\ ~log[j].exc

\* A region and a marker line were each loaded with a download, and the
\* region was then loaded again, as the last load of the run, without one.
C28_Witness ==
    /\ Len(log) = MaxLoads
    /\ \E i \in DOMAIN log :
          log[i].op = "load_region" /\ log[i].name = "r2" /\ ~log[i].exc
              /\ log[i].arg.fetched = 1
    /\ \E i \in DOMAIN log :
          log[i].op = "load_marker" /\ log[i].name = "m2" /\ ~log[i].exc
              /\ log[i].arg.fetched = 1
    /\ log[Len(log)].op = "load_region" /\ log[Len(log)].name = "r2"
    /\ log[Len(log)].arg.fetched = 0 /\ ~log[Len(log)].exc
    /\ RegionFile("r2", "tif") \in disk

\* C29: update_scatter_color for a name changes the brush of the scatter item
\* kept for the name to the colour given and nothing else: the item is the
\* one made before and shows what it showed, the names with an item and the
\* coordinates kept are the same; for a name without an item nothing changes.
C29_ColorRetintsOnly ==
    [][ (log' # <<>> /\ log'[1].op = "update_scatter_color" /\ events' = events + 1) =>
            LET name == log'[1].name
            IN  /\ ~log'[1].exc
                /\ sec' = IF name \in DOMAIN sec.scatter_items
                          THEN [sec EXCEPT !.scatter_items[name].brush = log'[1].arg.color]
                          ELSE sec
      ]_vars

\* The colour of a ROI set that has an item was changed, while another set
\* has an item too; the item made first still shows the points of its slice.
C29_Witness ==
    /\ log # <<>> /\ log[1].op = "update_scatter_color"
    /\ DOMAIN sec.scatter_items = RoiSetNames
    /\ sec.scatter_items[log[1].name].brush = log[1].arg.color
    /\ sec.scatter_items[log[1].name].made = 1
    /\ sec.scatter_items[log[1].name].data # <<>>
    /\ \E n \in RoiSetNames : sec.scatter_items[n].brush # log[1].arg.color

\* C30: with a marker set, ymax of a slice view is the extent of the second
\* in-plane axis of its kind, the vertical axis of its image: extent2 for
\* the sagittal view, extent0 for the coronal, extent2 for the transversal.
C30_YmaxSecondAxis ==
    MarkerSet =>
        /\ ymax(win, "sag") = win.marker_image[3]
        /\ ymax(win, "cor") = win.marker_image[1]
        /\ ymax(win, "tra") = win.marker_image[3]
        /\ \A v \in Views : ymax(win, v) = Extent(ImageAxes(v).y)

\* The horizontal line of the coronal view has just been placed, counted
\* from ymax, for a marker whose three extents differ.
C30_Witness ==
    /\ MarkerSet
    /\ log # <<>> /\ log[Len(log)].op = "update_hline" /\ log[Len(log)].view = "cor"
    /\ ~log[Len(log)].exc
    /\ win.views["cor"].hline = Pos(win.marker_image[1] - log[Len(log)].arg)
    /\ win.marker_image[1] # win.marker_image[2]
    /\ win.marker_image[1] # win.marker_image[3]

\* C31: every name in the region store has a colour in the colour map, in
\* every state and so whenever a view runs update_regions: a toggle stores
\* the colour of a region before the region, and colours are never removed.
C31_ColourBeforeRegion ==
    /\ \A n \in Stored : n \in win.region_colors
    /\ \A i \in DOMAIN log :
          log[i].op = "add_region" => \E j \in 1..(i - 1) :
              log[j].op = "update_region_color" /\ log[j].name = log[i].name

\* A view has just run update_regions for a region that was selected,
\* deselected and selected again, with the region in the store.
C31_Witness ==
    /\ log # <<>> /\ log[1].op = "toggle_item"
    /\ events >= 3
    /\ log[Len(log)].op = "update_regions" /\ ~log[Len(log)].exc
    /\ Count("add_region") = 1
    /\ log[1].name \in Stored
    /\ win.views[log[Len(log)].view].region_image_items[log[1].name].visible
    /\ Cardinality(Stored) = 1

\* C32: when a toggle of a region in the selection tree has been handled, a
\* toggle whose region load fails included, the items marked selected in the
\* tree are the names in the region store.
C32_SelectedIsStored ==
    (Handled /\ log[1].op = "toggle_item") => win.selected_items = Stored

\* C33: when a set_marker has completed, the first or a later one with other
\* extents, from any index the views stood on, every cursor line of every
\* slice view encodes the slice index of the view of the axis it tracks.
C33_LinesFollowMarker ==
    (SettingMarker /\ Handled) =>
        \A a \in 0..2 : \A l \in LinesOfAxis(a) :
            LineIndex(win, l[1], l[2]) = win.views[ViewOfAxis(a)].currentIndex

\* The last change was the addition of a ROI set under a name that had been
\* added and removed before.
ReAdded ==
    /\ log # <<>> /\ log[1].op = "roi_set_added" /\ ~log[1].exc
    /\ sec.made[log[1].name] >= 2

\* C34: when a ROI set was removed and a ROI set of the same name is then
\* added, the section view keeps the coordinates of the new set for the name
\* and the 3D view draws the name at the mirrored copy of those same
\* coordinates.
C34_ReAddedShownAlike ==
    ReAdded =>
        LET n == log[1].name
        IN  /\ sec.scatter_coordinates[n] = log[1].arg.coordinates
            /\ vol.scatter_items[n].visible
            /\ vol.scatter_items[n].pos =
                   MirroredCopy(sec.scatter_coordinates[n], vol.volume_bounds[1])

\* C35: for every view kind, index and voxel, the region slice the view
\* computes and the frame it displays of a marker volume with the same
\* content are the same array: a voxel is at the same pixel in both.
C35_OverlayAligned ==
    (log # <<>> /\ log[Len(log)].op = "get_region_slice") =>
        log[Len(log)].arg.slice = log[Len(log)].arg.shown

\* The transversal view, moved off its middle slice, has computed the slice
\* of a region whose raised voxel lies in that slice, and the frame of the
\* marker shows the voxel at the same pixel: row 0, column 1.
C35_Witness ==
    /\ log # <<>> /\ log[Len(log)].op = "get_region_slice"
    /\ log[Len(log)].view = "tra"
    /\ log[Len(log)].arg.idx = 0
    /\ log[Len(log)].arg.voxel = <<1, 0, win.marker_image[3] - 1>>
    /\ log[Len(log)].arg.shown[0][1] = 1
    /\ log[Len(log)].arg.slice[0][1] = 1
    /\ events > 0

\* The point array that holds the one point with the integer coordinates a.
PointAt(a) == << <<Coord(a[1]), Coord(a[2]), Coord(a[3])>> >>

\* The 2D position, in the units of point coordinates, at which update_vline
\* and update_hline place the lines of view v for the coordinates a.
LinesPlacedFor(v, a) ==
    << 2 * update_vline(win, v, a[LineAxis(v, "vline") + 1]).s.views[v].vline,
       2 * update_hline(win, v, a[LineAxis(v, "hline") + 1]).s.views[v].hline >>

\* The voxel on which the three slice views of the window stand.
CursorVoxel ==
    << win.views["sag"].currentIndex, win.views["tra"].currentIndex,
       win.views["cor"].currentIndex >>

\* C36: a point with integer coordinates that lies in the current slice of a
\* view is projected to the position at which the view's vertical and
\* horizontal line are placed for the same coordinates; and the point on the
\* voxel the views stand on is projected, in each view, to where the lines
\* of that view stand.
C36_PointsOnLines ==
    /\ \A a \in Voxels(sec.marker_image) :
          a[ImageAxes(sec.kind).t + 1] = sec.currentIndex =>
              views_get_coordinate_slice(sec, PointAt(a)) = << LinesPlacedFor(sec.kind, a) >>
    /\ \A v \in Views :
          get_coordinate_slice([win EXCEPT !.points = [set |-> TRUE, data |-> PointAt(CursorVoxel)]], v)
              = << << 2 * win.views[v].vline, 2 * win.views[v].hline >> >>

\* After changes of two slice indices the section view shows a ROI set with
\* a point of its slice exactly where the lines of the window's view of that
\* kind cross, away from where they crossed at the start.
C36_Witness ==
    /\ log # <<>> /\ log[1].op = "slice_index_changed"
    /\ events >= 3
    /\ CursorVoxel = <<0, 2, 3>>
    /\ \E n \in DOMAIN sec.scatter_items :
          \E i \in DOMAIN sec.scatter_items[n].data :
              sec.scatter_items[n].data[i] =
                  << 2 * win.views[sec.kind].vline, 2 * win.views[sec.kind].hline >>

\* Where the three planes of the 3D view of views.py stand, as a point in the
\* units of point coordinates; and the same for the 3D view of main.py.
PlanesCross ==
    << Coord(vol.saggital_plane[1]), Coord(vol.transverse_plane[2]),
       Coord(vol.coronal_plane[3]) >>

WindowPlanesCross ==
    << Coord(win.volume_view.planes.sag), Coord(win.volume_view.planes.tra),
       Coord(win.volume_view.planes.cor) >>

\* The names whose scatter item in the 3D view was made from the coordinates
\* the ROI set of the name has now.
DrawnFromOwn == {n \in DOMAIN vol.roi_set_items : sec.made[n] = 1}

\* C37: in the 3D view a drawn point whose A0 coordinate is an index has the
\* x of the sagittal plane set to that index, extent0 - index, and one whose
\* A1 / A2 coordinate is an index has the y / z of the transverse / coronal
\* plane set to it; so the point on the voxel the views stand on is drawn
\* where the three planes stand, in the 3D view of views.py and in that of
\* main.py.
C37_PointsOnPlanes ==
    /\ \A n \in DrawnFromOwn : \A i \in DOMAIN vol.scatter_items[n].pos :
          LET c == vol.roi_set_items[n].coordinates[i]
              p == vol.scatter_items[n].pos[i]
          IN  /\ \A idx \in PlaneIndices :
                    /\ c[1] = Coord(idx) =>
                          /\ p[1] = Coord(set_saggital_position(vol, idx).saggital_plane[1])
                          /\ p[1] = Coord(vol.volume_bounds[1] - idx)
                    /\ c[2] = Coord(idx) =>
                          p[2] = Coord(set_transverse_position(vol, idx).transverse_plane[2])
                    /\ c[3] = Coord(idx) =>
                          p[3] = Coord(set_coronal_position(vol, idx).coronal_plane[3])
              /\ c = PointAt(CursorVoxel)[1] => p = PlanesCross
    /\ volume_update_scatter(
           [win EXCEPT !.points = [set |-> TRUE, data |-> PointAt(CursorVoxel)]]
       ).s.volume_view.scatter_item.data = << WindowPlanesCross >>

\* The sagittal index has been moved to the slice of a point of a ROI set
\* that is shown, the other indices standing on the point too: the point is
\* drawn where the three planes stand, which is not where it is stored.
C37_Witness ==
    /\ log # <<>> /\ log[1].op = "slice_index_changed" /\ log[1].view = "sag"
    /\ events >= 3
    /\ vol.saggital_plane[1] = vol.volume_bounds[1] - log[1].arg
    /\ \E n \in DrawnFromOwn :
          /\ vol.scatter_items[n].visible
          /\ \E i \in DOMAIN vol.scatter_items[n].pos :
                /\ vol.roi_set_items[n].coordinates[i] = PointAt(CursorVoxel)[1]
                /\ vol.scatter_items[n].pos[i] = PlanesCross
                /\ vol.scatter_items[n].pos[i] # vol.roi_set_items[n].coordinates[i]

\* C38: in a section view, after any sequence of add_scatter, remove_scatter,
\* update_scatter_color and update_scatter, every name that has a scatter
\* item has coordinates kept for it, and with a marker set no call raises:
\* update_scatter finds the coordinates of every name it goes through.
C38_ItemsHaveCoordinates ==
    /\ DOMAIN sec.scatter_items \subseteq DOMAIN sec.scatter_coordinates
    /\ (log # <<>> /\ log[1].exc) => sec.marker_image = NoMarker

\* update_scatter has run, with a marker, for a view that has the item of one
\* ROI set and keeps the coordinates of another that was removed.
C38_Witness ==
    /\ log # <<>> /\ log[1].op = "views_update_scatter" /\ ~log[1].exc
    /\ sec.marker_image # NoMarker
    /\ DOMAIN sec.scatter_items # {}
    /\ DOMAIN sec.scatter_coordinates \ DOMAIN sec.scatter_items # {}
    /\ \E n \in DOMAIN sec.scatter_items : sec.scatter_items[n].data # <<>>

====
